---- MODULE Spec2Model ----
(***************************************************************************)
(* Round engine of the Flip 7 server (class Game, class Deck, and the      *)
(* shared calculateRoundScore), modelled as a state machine.  Every public *)
(* method of Game is one action; the private methods are operators on an   *)
(* engine record, composed exactly as the methods call each other.         *)
(***************************************************************************)
EXTENDS Integers, Sequences, FiniteSets, TLC

\* ---------------------------------------------------------------- bounds
\* settings.targetScore handed to the constructor (default 200)
TargetScore == 8
\* rounds the next-round timer is allowed to start
MaxRounds == 2
\* intents (hit, pass, choices) accepted in one behaviour
MaxIntents == 9
\* disconnect notifications delivered in one behaviour
MaxDisconnects == 1
\* updatePlayerId calls delivered in one behaviour
MaxRenames == 1
\* intents accepted in one behaviour when the refused ones are delivered too
MaxIntentsAudited == 3
MaxIntentsConnections == 3
MaxScoredCards == 3
MaxDeckCalls == 3
MaxDrawMultiple == 11
\* intents accepted in one behaviour of the game whose deal meets action cards
MaxIntentsDeal == 5
\* intents accepted in one behaviour of the game in which seven different numbers turn up
MaxIntentsSeven == 8
\* intents delivered in the game in which a player drops out of a pending choice
MaxIntentsDropouts == 3
\* intents delivered in the game whose players answer in the end
MaxIntentsFair == 5

\* ------------------------------------------------------ program constants
MinPlayers == 3
FlipSevenCount == 7
FlipSevenBonus == 15
FlipThreeDraws == 3

\* ------------------------------------------------------------- the cards
\* A sub-population of Deck.createDeck: a card is its index in CardFaces.
NumberFace(v) == [type |-> "number", value |-> v, action |-> "", modifier |-> ""]
ActionFace(a) == [type |-> "action", value |-> 0, action |-> a, modifier |-> ""]
ModifierFace(m, v) == [type |-> "modifier", value |-> v, action |-> "", modifier |-> m]

\* the cards the decks of the game are made of
DealtFaces ==
  << NumberFace(3), NumberFace(3), NumberFace(4), NumberFace(4), NumberFace(5),
     ActionFace("freeze"), ActionFace("flip_three"),
     ActionFace("second_chance"), ActionFace("second_chance"),
     ModifierFace("plus", 2) >>
\* further cards of createDeck, which only the scoring of hands is exercised on
ScoringFaces ==
  << NumberFace(0), NumberFace(1), NumberFace(2), NumberFace(6),
     ModifierFace("x2", 0), ModifierFace("plus", 4) >>

\* one more of the Freeze cards of createDeck
SpareFaces == << ActionFace("freeze") >>

CardFaces == DealtFaces \o ScoringFaces \o SpareFaces

Cards == 1..Len(DealtFaces)

isNumberCard(c) == CardFaces[c].type = "number"
isActionCard(c) == CardFaces[c].type = "action"
isModifierCard(c) == CardFaces[c].type = "modifier"

\* ------------------------------------------------------------- utilities
None == << >>
Some(x) == << x >>
IsSome(o) == Len(o) = 1
Val(o) == o[1]

Range(s) == { s[k] : k \in 1..Len(s) }

RemoveAt(s, k) == SubSeq(s, 1, k - 1) \o SubSeq(s, k + 1, Len(s))

\* --------------------------------------------------------------- scoring
NumberValue(c) == IF isNumberCard(c) THEN CardFaces[c].value ELSE 0
ModifierBonus(c) ==
  IF isModifierCard(c) /\ CardFaces[c].modifier # "x2" THEN CardFaces[c].value ELSE 0
RECURSIVE SumNumbers(_)
SumNumbers(s) == IF s = << >> THEN 0 ELSE NumberValue(Head(s)) + SumNumbers(Tail(s))
RECURSIVE SumModifiers(_)
SumModifiers(s) == IF s = << >> THEN 0 ELSE ModifierBonus(Head(s)) + SumModifiers(Tail(s))
UniqueNumbers(cards) == { CardFaces[c].value : c \in { d \in Range(cards) : isNumberCard(d) } }

\* calculateRoundScore that doubles the modifier bonuses along with the numbers
calculateRoundScore_DoublesBonuses(cards) ==
  LET numberTotal == SumNumbers(cards)
      hasX2 == \E c \in Range(cards) : isModifierCard(c) /\ CardFaces[c].modifier = "x2"
      modifierBonus == SumModifiers(cards)
      total == IF hasX2 THEN (numberTotal + modifierBonus) * 2 ELSE numberTotal + modifierBonus
  IN IF Cardinality(UniqueNumbers(cards)) >= FlipSevenCount
       THEN total + FlipSevenBonus ELSE total

calculateRoundScore(cards) ==
  LET numberTotal == SumNumbers(cards)
      hasX2 == \E c \in Range(cards) : isModifierCard(c) /\ CardFaces[c].modifier = "x2"
      modifierBonus == SumModifiers(cards)
      total == (IF hasX2 THEN numberTotal * 2 ELSE numberTotal) + modifierBonus
  IN IF Cardinality(UniqueNumbers(cards)) >= FlipSevenCount
       THEN total + FlipSevenBonus ELSE total

\* ------------------------------------------------------------------ Deck
\* Deck.cards is an array; draw() pops its last element.
DeckDraw(d) == IF d = << >> THEN [card |-> None, deck |-> d]
               ELSE [card |-> Some(d[Len(d)]), deck |-> SubSeq(d, 1, Len(d) - 1)]
\* addCards that turns the deck over
DeckAddCards_TurnsOver(d, cs) == [k \in 1..(Len(d) + Len(cs)) |-> (d \o cs)[Len(d) + Len(cs) + 1 - k]]
DeckAddCards(d, cs) == d \o cs
\* drawMultiple: count calls of draw, the cards that came back collected in order
RECURSIVE DeckDrawMultiple(_, _)
DeckDrawMultiple(d, count) ==
  IF count = 0 THEN [cards |-> << >>, deck |-> d]
  ELSE LET first == DeckDraw(d)
           rest(r) == [cards |-> first.card \o r.cards, deck |-> r.deck]
       IN rest(DeckDrawMultiple(first.deck, count - 1))

\* One outcome of shuffle() on the freshly built deck, in drawing order
\* (the first card listed is the last element of Deck.cards).
BaseOrder == << 8, 7, 1, 2, 3, 9, 5, 6, 4, 10 >>

Reverse(s) == [k \in 1..Len(s) |-> s[Len(s) + 1 - k]]
Rotate(s, k) == SubSeq(s, k + 1, Len(s)) \o SubSeq(s, 1, k)

\* Outcomes of shuffle() that the model follows: every cut of the cards.
ShuffleOutcomes(s) == IF s = << >> THEN { s } ELSE { Rotate(s, k) : k \in 0..(Len(s) - 1) }

InitialDecks == ShuffleOutcomes(Reverse(BaseOrder))
\* a second shuffle and its cuts, in which a Flip Three is drawn right after the
\* deal and runs into a duplicate
AuditOrder == << 1, 8, 3, 5, 7, 4, 6, 2, 9, 10 >>
AuditDecks == ShuffleOutcomes(Reverse(AuditOrder))
\* a third shuffle and its cuts, in which the deal turns up the Freeze and the
\* Flip Three at once
DealOrder == << 6, 7, 1, 3, 2, 8, 5, 4, 9, 10 >>
\* and a fourth, in which a Flip Three turns up the Freeze and then a duplicate
\* for a player holding a Second Chance
SetAsideOrder == << 8, 1, 3, 5, 7, 6, 2, 4, 9, 10 >>
DealDecks == ShuffleOutcomes(Reverse(DealOrder)) \cup ShuffleOutcomes(Reverse(SetAsideOrder))
\* a shuffle of a deck that holds the numbers 0 to 6, and its cuts
SevenOrder == << 11, 2, 4, 12, 13, 1, 3, 5, 7, 14, 10, 8, 6, 9 >>
\* another, in which the deal turns up the Flip Three first
SevenDealOrder == << 7, 11, 12, 13, 2, 4, 1, 10, 3, 8, 5, 9, 14, 6 >>
SevenDecks == ShuffleOutcomes(Reverse(SevenOrder)) \cup ShuffleOutcomes(Reverse(SevenDealOrder))
\* a shuffle in which the last card of a Flip Three is a duplicate for a player
\* holding a Second Chance, and its cuts
DropoutOrder == << 1, 8, 3, 5, 7, 10, 2, 4, 6, 9 >>
DropoutDecks == ShuffleOutcomes(Reverse(DropoutOrder))
\* a shuffle in which the deal turns up two Freeze cards around the Flip Three,
\* and its cuts
LastStandingOrder == << 6, 7, 1, 3, 2, 17, 5, 4, 8, 9, 10 >>
LastStandingDecks == ShuffleOutcomes(Reverse(LastStandingOrder))

\* --------------------------------------------------------------- players
Seats == 0..(MinPlayers - 1)
InitialIds == [i \in Seats |-> i + 1]
FreshIds == [i \in Seats |-> i + 11]
PlayerIds == { InitialIds[i] : i \in Seats } \cup { FreshIds[i] : i \in Seats }
NoId == 0

SeatOf(g, id) ==
  IF \E i \in Seats : g.players[i].id = id
    THEN CHOOSE i \in Seats : g.players[i].id = id /\ \A j \in Seats : g.players[j].id = id => i <= j
    ELSE -1

getEligibleFreezeTargetsSeats(g) ==
  { i \in Seats : g.players[i].status = "active" /\ g.players[i].isConnected }

RECURSIVE SeatsToIds(_, _)
SeatsToIds(g, i) ==
  IF i >= MinPlayers THEN << >>
  ELSE (IF i \in getEligibleFreezeTargetsSeats(g) THEN << g.players[i].id >> ELSE << >>)
       \o SeatsToIds(g, i + 1)

getEligibleFreezeTargets(g) == SeatsToIds(g, 0)

IsSecondChance(c) == isActionCard(c) /\ CardFaces[c].action = "second_chance"
hasSecondChanceCard(p) == \E c \in Range(p.cards) : IsSecondChance(c)
\* getSecondChanceIndex that answers with the last card of the hand
getSecondChanceIndex_LastCard(p) ==
  IF hasSecondChanceCard(p) THEN Len(p.cards) ELSE 0

\* 1-based position of the first Second Chance card, 0 when there is none
getSecondChanceIndex(p) ==
  IF hasSecondChanceCard(p)
    THEN CHOOSE k \in 1..Len(p.cards) :
           IsSecondChance(p.cards[k]) /\ \A m \in 1..(k - 1) : ~IsSecondChance(p.cards[m])
    ELSE 0

SetStatus(g, i, st) == [g EXCEPT !.players[i].status = st]
SetRoundScore(g, i, sc) == [g EXCEPT !.players[i].roundScore = sc]
PushCard(g, i, c) == [g EXCEPT !.players[i].cards = Append(@, c)]
Discard(g, cs) == [g EXCEPT !.discardPile = @ \o cs]

\* Observation only: the cards the current call has drawn so far, each with the
\* loop that drew it and what processDrawnCard reported.
Logged(r, ctx, i) ==
  IF r.result.ok
    THEN [r EXCEPT !.g.drawn = Append(@, [ctx |-> ctx, seat |-> i, card |-> r.result.card,
                                          isBust |-> r.result.isBust,
                                          hasSecondChance |-> r.result.hasSecondChance,
                                          extraSecondChance |-> r.result.extraSecondChance])]
    ELSE r

\* ------------------------------------------------------- card resolution
NoResult ==
  [ok |-> FALSE, card |-> 0, isBust |-> FALSE, triggersFlipThree |-> FALSE,
   triggersFreeze |-> FALSE, hasSecondChance |-> FALSE, extraSecondChance |-> FALSE]

\* processDrawnCard that leaves a player with seven different numbers active
processDrawnCard_NoAutoStop(g, i, card) ==
  LET p == g.players[i]
      base == [NoResult EXCEPT !.ok = TRUE, !.card = card]
  IN IF isNumberCard(card)
       THEN IF \E c \in Range(p.cards) : isNumberCard(c) /\ CardFaces[c].value = CardFaces[card].value
              THEN [g |-> g,
                    result |-> [base EXCEPT !.isBust = TRUE, !.hasSecondChance = hasSecondChanceCard(p)]]
              ELSE [g |-> PushCard(g, i, card), result |-> base]
     ELSE IF isActionCard(card)
       THEN IF CardFaces[card].action = "freeze"
              THEN [g |-> PushCard(g, i, card), result |-> [base EXCEPT !.triggersFreeze = TRUE]]
            ELSE IF CardFaces[card].action = "flip_three"
              THEN [g |-> PushCard(g, i, card), result |-> [base EXCEPT !.triggersFlipThree = TRUE]]
            ELSE IF hasSecondChanceCard(p)
              THEN [g |-> g, result |-> [base EXCEPT !.extraSecondChance = TRUE]]
              ELSE [g |-> PushCard(g, i, card), result |-> base]
     ELSE [g |-> PushCard(g, i, card), result |-> base]

\* processDrawnCard that puts a duplicate number into the hand as well
processDrawnCard_KeepsDuplicate(g, i, card) ==
  LET p == g.players[i]
      base == [NoResult EXCEPT !.ok = TRUE, !.card = card]
  IN IF isNumberCard(card)
       THEN IF \E c \in Range(p.cards) : isNumberCard(c) /\ CardFaces[c].value = CardFaces[card].value
              THEN [g |-> PushCard(g, i, card),
                    result |-> [base EXCEPT !.isBust = TRUE, !.hasSecondChance = hasSecondChanceCard(p)]]
              ELSE LET g1 == PushCard(g, i, card)
                   IN [g |-> IF Cardinality(UniqueNumbers(g1.players[i].cards)) >= FlipSevenCount
                               THEN SetStatus(g1, i, "passed") ELSE g1,
                       result |-> base]
     ELSE IF isActionCard(card)
       THEN IF CardFaces[card].action = "freeze"
              THEN [g |-> PushCard(g, i, card), result |-> [base EXCEPT !.triggersFreeze = TRUE]]
            ELSE IF CardFaces[card].action = "flip_three"
              THEN [g |-> PushCard(g, i, card), result |-> [base EXCEPT !.triggersFlipThree = TRUE]]
            ELSE IF hasSecondChanceCard(p)
              THEN [g |-> g, result |-> [base EXCEPT !.extraSecondChance = TRUE]]
              ELSE [g |-> PushCard(g, i, card), result |-> base]
     ELSE [g |-> PushCard(g, i, card), result |-> base]

processDrawnCard(g, i, card) ==
  LET p == g.players[i]
      base == [NoResult EXCEPT !.ok = TRUE, !.card = card]
  IN IF isNumberCard(card)
       THEN IF \E c \in Range(p.cards) : isNumberCard(c) /\ CardFaces[c].value = CardFaces[card].value
              THEN [g |-> g,
                    result |-> [base EXCEPT !.isBust = TRUE, !.hasSecondChance = hasSecondChanceCard(p)]]
              ELSE LET g1 == PushCard(g, i, card)
                   IN [g |-> IF Cardinality(UniqueNumbers(g1.players[i].cards)) >= FlipSevenCount
                               THEN SetStatus(g1, i, "passed") ELSE g1,
                       result |-> base]
     ELSE IF isActionCard(card)
       THEN IF CardFaces[card].action = "freeze"
              THEN [g |-> PushCard(g, i, card), result |-> [base EXCEPT !.triggersFreeze = TRUE]]
            ELSE IF CardFaces[card].action = "flip_three"
              THEN [g |-> PushCard(g, i, card), result |-> [base EXCEPT !.triggersFlipThree = TRUE]]
            ELSE IF hasSecondChanceCard(p)
              THEN [g |-> g, result |-> [base EXCEPT !.extraSecondChance = TRUE]]
              ELSE [g |-> PushCard(g, i, card), result |-> base]
     ELSE [g |-> PushCard(g, i, card), result |-> base]

\* giveSecondChanceToOtherPlayer that does not look at what the receiver holds
giveSecondChanceToOtherPlayer_AnyActive(g, card) ==
  LET eligible == { i \in Seats : g.players[i].status = "active" }
  IN IF eligible # {}
       THEN PushCard(g, CHOOSE i \in eligible : \A j \in eligible : i <= j, card)
       ELSE Discard(g, << card >>)

giveSecondChanceToOtherPlayer(g, card) ==
  LET eligible == { i \in Seats : g.players[i].status = "active" /\ ~hasSecondChanceCard(g.players[i]) }
  IN IF eligible # {}
       THEN PushCard(g, CHOOSE i \in eligible : \A j \in eligible : i <= j, card)
       ELSE Discard(g, << card >>)

\* ------------------------------------------------------------- round end
\* first seat with the highest score among the seats in S (a stable descending sort's head)
TopScorer(g, S) ==
  CHOOSE i \in S : \A j \in S :
    g.players[j].score < g.players[i].score \/ (g.players[j].score = g.players[i].score /\ i <= j)

\* endRound that names the first player it finds over the target, without comparing scores
endRound_FirstOverTarget(g) ==
  LET banked == [i \in Seats |->
                   IF g.players[i].status \in {"passed", "frozen"}
                     THEN [g.players[i] EXCEPT !.score = @ + g.players[i].roundScore]
                     ELSE g.players[i]]
      g1 == [g EXCEPT !.phase = "ROUND_END", !.players = banked]
      overTarget == { i \in Seats : g1.players[i].score >= TargetScore }
  IN IF overTarget # {}
       THEN [g1 EXCEPT !.phase = "GAME_END",
                       !.winnerId = Some(g1.players[CHOOSE i \in overTarget :
                                                      \A j \in overTarget : i <= j].id)]
       ELSE [g1 EXCEPT !.dealerIndex = (@ + 1) % MinPlayers,
                       !.roundStartTimeout = TRUE,
                       !.timers = @ + 1]

\* endRound that overwrites a cumulative score with the round score
endRound_ReplacesTotals(g) ==
  LET banked == [i \in Seats |->
                   IF g.players[i].status \in {"passed", "frozen"}
                     THEN [g.players[i] EXCEPT !.score = g.players[i].roundScore]
                     ELSE g.players[i]]
      g1 == [g EXCEPT !.phase = "ROUND_END", !.players = banked]
      overTarget == { i \in Seats : g1.players[i].score >= TargetScore }
  IN IF overTarget # {}
       THEN [g1 EXCEPT !.phase = "GAME_END",
                       !.winnerId = Some(g1.players[TopScorer(g1, overTarget)].id)]
       ELSE [g1 EXCEPT !.dealerIndex = (@ + 1) % MinPlayers,
                       !.roundStartTimeout = TRUE,
                       !.timers = @ + 1]

endRound(g) ==
  LET banked == [i \in Seats |->
                   IF g.players[i].status \in {"passed", "frozen"}
                     THEN [g.players[i] EXCEPT !.score = @ + g.players[i].roundScore]
                     ELSE g.players[i]]
      g1 == [g EXCEPT !.phase = "ROUND_END", !.players = banked]
      overTarget == { i \in Seats : g1.players[i].score >= TargetScore }
  IN IF overTarget # {}
       THEN [g1 EXCEPT !.phase = "GAME_END",
                       !.winnerId = Some(g1.players[TopScorer(g1, overTarget)].id)]
       ELSE [g1 EXCEPT !.dealerIndex = (@ + 1) % MinPlayers,
                       !.roundStartTimeout = TRUE,
                       !.timers = @ + 1]

\* first active connected seat at or cyclically after seat `from`; -1 when there is none
NextActiveFrom(g, from) ==
  LET ok(k) == g.players[(from + k) % MinPlayers].status = "active"
               /\ g.players[(from + k) % MinPlayers].isConnected
  IN IF \E k \in 0..(MinPlayers - 1) : ok(k)
       THEN (from + (CHOOSE k \in 0..(MinPlayers - 1) : ok(k) /\ \A m \in 0..(k - 1) : ~ok(m))) % MinPlayers
       ELSE -1

\* advanceToNextPlayer whose search starts at the current seat instead of the next one
advanceToNextPlayer_FromCurrent(g) ==
  IF getEligibleFreezeTargetsSeats(g) = {}
    THEN endRound(g)
    ELSE LET n == NextActiveFrom(g, g.currentPlayerIndex)
         IN IF n # -1 THEN [g EXCEPT !.currentPlayerIndex = n] ELSE endRound(g)

advanceToNextPlayer(g) ==
  IF getEligibleFreezeTargetsSeats(g) = {}
    THEN endRound(g)
    ELSE LET n == NextActiveFrom(g, (g.currentPlayerIndex + 1) % MinPlayers)
         IN IF n # -1 THEN [g EXCEPT !.currentPlayerIndex = n] ELSE endRound(g)

skipInactivePlayers(g) ==
  LET n == NextActiveFrom(g, g.currentPlayerIndex)
  IN IF n # -1 THEN [g EXCEPT !.currentPlayerIndex = n] ELSE g

\* ---------------------------------------------------- freeze, flip three
\* In the operators below a local operator with parameters stands for the rest
\* of a method after a call: its parameter is the value the call returned.
\* the assignment both handleDrawnCard and executeFlipThree make on an insured duplicate
setPendingSecondChance_ForCurrentPlayer(g, i, card) ==
  [g EXCEPT !.pendingSecondChance = Some([playerId |-> g.players[g.currentPlayerIndex].id,
                                          duplicateCard |-> card]),
            !.phase = "AWAITING_SECOND_CHANCE"]

setPendingSecondChance(g, i, card) ==
  [g EXCEPT !.pendingSecondChance = Some([playerId |-> g.players[i].id, duplicateCard |-> card]),
            !.phase = "AWAITING_SECOND_CHANCE"]

\* tryResolveFreeze that always stops the player who drew the card
tryResolveFreeze_FreezesDrawer(g, playerId) ==
  LET eligibleTargets == getEligibleFreezeTargets(g)
      t == SeatOf(g, playerId)
  IN IF Len(eligibleTargets) = 0 \/ t = -1 THEN [g |-> g, r |-> "none"]
     ELSE [g |-> SetRoundScore(SetStatus(g, t, "frozen"), t,
                               calculateRoundScore(g.players[t].cards)),
           r |-> "resolved"]

\* tryResolveFreeze that freezes the only eligible player without scoring the hand
tryResolveFreeze_NoScore(g, playerId) ==
  LET eligibleTargets == getEligibleFreezeTargets(g)
  IN IF Len(eligibleTargets) = 0 THEN [g |-> g, r |-> "none"]
     ELSE IF Len(eligibleTargets) = 1
       THEN [g |-> SetStatus(g, SeatOf(g, eligibleTargets[1]), "frozen"), r |-> "resolved"]
     ELSE [g |-> [g EXCEPT !.pendingFreezeTarget =
                             Some([playerId |-> playerId, eligibleTargets |-> eligibleTargets]),
                           !.phase = "AWAITING_FREEZE_TARGET"],
           r |-> "pending"]

tryResolveFreeze(g, playerId) ==
  LET eligibleTargets == getEligibleFreezeTargets(g)
  IN IF Len(eligibleTargets) = 0 THEN [g |-> g, r |-> "none"]
     ELSE IF Len(eligibleTargets) = 1
       THEN LET t == SeatOf(g, eligibleTargets[1])
            IN [g |-> SetRoundScore(SetStatus(g, t, "frozen"), t,
                                    calculateRoundScore(g.players[t].cards)),
                r |-> "resolved"]
     ELSE [g |-> [g EXCEPT !.pendingFreezeTarget =
                             Some([playerId |-> playerId, eligibleTargets |-> eligibleTargets]),
                           !.phase = "AWAITING_FREEZE_TARGET"],
           r |-> "pending"]

\* the while loop of executeFlipThree; returned = the method returned from inside the loop
RECURSIVE executeFlipThreeLoop(_, _)
executeFlipThreeLoop(g, i) ==
  LET checkPassed(g3) ==
        IF g3.players[i].status = "passed"
          THEN [g |-> SetRoundScore(g3, i, calculateRoundScore(g3.players[i].cards)),
                returned |-> FALSE]
          ELSE executeFlipThreeLoop(g3, i)
      branch(g2, res) ==
        IF res.isBust /\ ~res.hasSecondChance
          THEN [g |-> SetRoundScore(SetStatus(g2, i, "busted"), i, 0), returned |-> FALSE]
        ELSE IF res.isBust /\ res.hasSecondChance
          THEN [g |-> setPendingSecondChance(g2, i, res.card), returned |-> TRUE]
        ELSE checkPassed(IF res.triggersFlipThree
                           THEN [g2 EXCEPT !.flipThreeRemaining = @ + FlipThreeDraws]
                         ELSE IF res.triggersFreeze
                           THEN [g2 EXCEPT !.pendingFlipThreeFreeze =
                                             Some([playerId |-> g2.players[i].id])]
                         ELSE g2)
      processed(pr) ==
        branch(IF pr.result.extraSecondChance
                 THEN giveSecondChanceToOtherPlayer(pr.g, pr.result.card) ELSE pr.g,
               pr.result)
      draw(g1, d) ==
        IF ~IsSome(d.card) THEN executeFlipThreeLoop(g1, i)
        ELSE processed(Logged(processDrawnCard([g1 EXCEPT !.deck = d.deck], i, Val(d.card)),
                              "flipThree", i))
  IN IF ~(g.flipThreeRemaining > 0 /\ g.players[i].status = "active")
       THEN [g |-> g, returned |-> FALSE]
       ELSE draw([g EXCEPT !.flipThreeRemaining = @ - 1], DeckDraw(g.deck))

\* the tail of executeFlipThree: advance when the target is out of the round
executeFlipThreeTail(g, i) ==
  IF g.players[i].status \in {"busted", "frozen", "passed"} THEN advanceToNextPlayer(g) ELSE g

\* executeFlipThree that resolves the Freeze it set aside whatever became of the target
executeFlipThree_FreezeSurvivesBust(g, i) ==
  LET afterFreeze(fr) == IF fr.r = "pending" THEN fr.g ELSE executeFlipThreeTail(fr.g, i)
      afterLoop(g1) ==
        IF IsSome(g1.pendingFlipThreeFreeze)
           /\ Val(g1.pendingFlipThreeFreeze).playerId = g1.players[i].id
          THEN afterFreeze(tryResolveFreeze([g1 EXCEPT !.pendingFlipThreeFreeze = None],
                                            g1.players[i].id))
          ELSE executeFlipThreeTail(g1, i)
      loopDone(lp) ==
        IF lp.returned THEN lp.g ELSE afterLoop([lp.g EXCEPT !.flipThreeRemaining = 0])
  IN loopDone(executeFlipThreeLoop(g, i))

executeFlipThree(g, i) ==
  LET afterFreeze(fr) == IF fr.r = "pending" THEN fr.g ELSE executeFlipThreeTail(fr.g, i)
      afterLoop(g1) ==
        IF IsSome(g1.pendingFlipThreeFreeze)
           /\ Val(g1.pendingFlipThreeFreeze).playerId = g1.players[i].id
          THEN IF g1.players[i].status \in {"busted", "passed"}
                 THEN executeFlipThreeTail([g1 EXCEPT !.pendingFlipThreeFreeze = None], i)
               ELSE IF g1.players[i].status = "active"
                 THEN afterFreeze(tryResolveFreeze([g1 EXCEPT !.pendingFlipThreeFreeze = None],
                                                   g1.players[i].id))
               ELSE executeFlipThreeTail(g1, i)
          ELSE executeFlipThreeTail(g1, i)
      loopDone(lp) ==
        IF lp.returned THEN lp.g ELSE afterLoop([lp.g EXCEPT !.flipThreeRemaining = 0])
  IN loopDone(executeFlipThreeLoop(g, i))

\* tryResolveFlipThree that records the target choice without leaving PLAYER_TURN
tryResolveFlipThree_KeepsPhase(g, playerId) ==
  LET eligibleTargets == getEligibleFreezeTargets(g)
  IN IF Len(eligibleTargets) = 0 THEN [g |-> g, r |-> "none"]
     ELSE IF Len(eligibleTargets) = 1
       THEN [g |-> executeFlipThree([g EXCEPT !.flipThreeRemaining = FlipThreeDraws],
                                    SeatOf(g, eligibleTargets[1])),
             r |-> "resolved"]
     ELSE [g |-> [g EXCEPT !.pendingFlipThreeTarget =
                             Some([playerId |-> playerId, eligibleTargets |-> eligibleTargets])],
           r |-> "pending"]

tryResolveFlipThree(g, playerId) ==
  LET eligibleTargets == getEligibleFreezeTargets(g)
  IN IF Len(eligibleTargets) = 0 THEN [g |-> g, r |-> "none"]
     ELSE IF Len(eligibleTargets) = 1
       THEN [g |-> executeFlipThree([g EXCEPT !.flipThreeRemaining = FlipThreeDraws],
                                    SeatOf(g, eligibleTargets[1])),
             r |-> "resolved"]
     ELSE [g |-> [g EXCEPT !.pendingFlipThreeTarget =
                             Some([playerId |-> playerId, eligibleTargets |-> eligibleTargets]),
                           !.phase = "AWAITING_FLIP_THREE_TARGET"],
           r |-> "pending"]

\* --------------------------------------------------------------- dealing
dealCardToPlayer(g, i) ==
  LET d == DeckDraw(g.deck)
  IN IF IsSome(d.card)
       THEN processDrawnCard([g EXCEPT !.deck = d.deck], i, Val(d.card))
       ELSE [g |-> g, result |-> NoResult]

\* the for loop of executeFlipThreeDuringDeal, n = draws already made
RECURSIVE executeFlipThreeDuringDealLoop(_, _, _, _)
executeFlipThreeDuringDealLoop(g, i, n, freezeDrawn) ==
  LET autoUse(g0, k, card) ==
        IF k # 0
          THEN Discard([g0 EXCEPT !.players[i].cards = RemoveAt(@, k)],
                       << g0.players[i].cards[k], card >>)
          ELSE g0
      branch(dr, res) ==
        IF ~res.ok THEN [g |-> g, freezeDrawn |-> freezeDrawn]
        ELSE IF res.isBust /\ ~res.hasSecondChance
          THEN [g |-> SetRoundScore(SetStatus(dr.g, i, "busted"), i, 0), freezeDrawn |-> freezeDrawn]
        ELSE IF res.isBust /\ res.hasSecondChance
          THEN executeFlipThreeDuringDealLoop(
                 autoUse(dr.g, getSecondChanceIndex(dr.g.players[i]), res.card),
                 i, n + 1, freezeDrawn)
        ELSE IF res.triggersFreeze
          THEN executeFlipThreeDuringDealLoop(dr.g, i, n + 1, TRUE)
        ELSE IF res.extraSecondChance
          THEN executeFlipThreeDuringDealLoop(giveSecondChanceToOtherPlayer(dr.g, res.card),
                                              i, n + 1, freezeDrawn)
        ELSE executeFlipThreeDuringDealLoop(dr.g, i, n + 1, freezeDrawn)
      dealt(dr) == branch(dr, dr.result)
  IN IF ~(n < FlipThreeDraws /\ g.players[i].status = "active")
       THEN [g |-> g, freezeDrawn |-> freezeDrawn]
       ELSE dealt(Logged(dealCardToPlayer(g, i), "dealFlipThree", i))

executeFlipThreeDuringDeal(g, i) ==
  LET afterFreeze(fr) ==
        IF fr.r = "pending"
          THEN [g |-> [fr.g EXCEPT !.pendingDealIndex = Some(i + 1)], paused |-> TRUE]
          ELSE [g |-> fr.g, paused |-> FALSE]
      loopDone(lp) ==
        IF lp.freezeDrawn /\ lp.g.players[i].status = "active"
          THEN afterFreeze(tryResolveFreeze(lp.g, lp.g.players[i].id))
          ELSE [g |-> lp.g, paused |-> FALSE]
  IN loopDone(executeFlipThreeDuringDealLoop(g, i, 0, FALSE))

\* the while loop of dealInitialCard (needsCard is true on every entry)
RECURSIVE dealInitialCard(_, _)
dealInitialCard(g, i) ==
  LET afterFreeze(fr) ==
        IF fr.r = "pending"
          THEN [g |-> [fr.g EXCEPT !.pendingDealIndex = Some(i + 1)], paused |-> TRUE]
          ELSE [g |-> fr.g, paused |-> FALSE]
      branch(dr, res) ==
        IF ~res.ok THEN [g |-> g, paused |-> FALSE]
        ELSE IF res.triggersFreeze
          THEN afterFreeze(tryResolveFreeze(dr.g, dr.g.players[i].id))
        ELSE IF res.triggersFlipThree
          THEN executeFlipThreeDuringDeal(dr.g, i)
        ELSE IF res.extraSecondChance
          THEN dealInitialCard(giveSecondChanceToOtherPlayer(dr.g, res.card), i)
        ELSE IF isActionCard(res.card) /\ CardFaces[res.card].action = "second_chance"
          THEN dealInitialCard(dr.g, i)
        ELSE [g |-> dr.g, paused |-> FALSE]
      dealt(dr) == branch(dr, dr.result)
  IN IF g.players[i].status # "active" THEN [g |-> g, paused |-> FALSE]
     ELSE dealt(Logged(dealCardToPlayer(g, i), "deal", i))

\* finishInitialDeal that gives the first turn to the dealer
finishInitialDeal_FromDealer(g) ==
  LET g1 == skipInactivePlayers([g EXCEPT !.pendingDealIndex = None,
                                          !.currentPlayerIndex = g.dealerIndex])
  IN [g1 EXCEPT !.phase = "PLAYER_TURN", !.roundStarts = @ + 1]

finishInitialDeal(g) ==
  LET g1 == skipInactivePlayers([g EXCEPT !.pendingDealIndex = None,
                                          !.currentPlayerIndex = (g.dealerIndex + 1) % MinPlayers])
  IN [g1 EXCEPT !.phase = "PLAYER_TURN", !.roundStarts = @ + 1]

RECURSIVE continueInitialDeal(_, _)
continueInitialDeal(g, i) ==
  LET dealt(dl) == IF dl.paused THEN dl.g ELSE continueInitialDeal(dl.g, i + 1)
  IN IF i >= MinPlayers THEN finishInitialDeal(g)
     ELSE IF g.players[i].status = "active" THEN dealt(dealInitialCard(g, i))
     ELSE continueInitialDeal(g, i + 1)

RECURSIVE AllHands(_, _)
AllHands(g, i) == IF i >= MinPlayers THEN << >> ELSE g.players[i].cards \o AllHands(g, i + 1)

\* startNewRound that forgets the Second Chance bookkeeping of an interrupted Flip Three
startNewRound_KeepsFlipThreeCount(g) ==
  LET g1 == [g EXCEPT !.round = @ + 1,
                      !.pendingSecondChance = None,
                      !.pendingFreezeTarget = None,
                      !.pendingFlipThreeTarget = None,
                      !.pendingDealIndex = None,
                      !.discardPile = @ \o AllHands(g, 0),
                      !.players = [i \in Seats |->
                                     [g.players[i] EXCEPT !.cards = << >>,
                                                          !.roundScore = 0,
                                                          !.status = IF g.players[i].isConnected
                                                                       THEN "active" ELSE "disconnected"]],
                      !.phase = "DEALING"]
  IN continueInitialDeal(g1, 0)

startNewRound(g) ==
  LET g1 == [g EXCEPT !.round = @ + 1,
                      !.pendingSecondChance = None,
                      !.pendingFreezeTarget = None,
                      !.pendingFlipThreeTarget = None,
                      !.pendingFlipThreeFreeze = None,
                      !.pendingDealIndex = None,
                      !.flipThreeRemaining = 0,
                      !.discardPile = @ \o AllHands(g, 0),
                      !.players = [i \in Seats |->
                                     [g.players[i] EXCEPT !.cards = << >>,
                                                          !.roundScore = 0,
                                                          !.status = IF g.players[i].isConnected
                                                                       THEN "active" ELSE "disconnected"]],
                      !.phase = "DEALING"]
  IN continueInitialDeal(g1, 0)

\* ------------------------------------------------------------- intents
handleDrawnCard(g, i, card) ==
  LET afterFreeze(fr) == IF fr.r # "pending" THEN advanceToNextPlayer(fr.g) ELSE fr.g
      afterFlipThree(ft) == IF ft.r # "pending" THEN advanceToNextPlayer(ft.g) ELSE ft.g
      branch(g1, res) ==
        IF res.isBust
          THEN IF res.hasSecondChance
                 THEN setPendingSecondChance(g1, i, card)
                 ELSE advanceToNextPlayer(
                        Discard(SetRoundScore(SetStatus(g1, i, "busted"), i, 0),
                                g1.players[i].cards \o << card >>))
        ELSE IF res.triggersFreeze
          THEN afterFreeze(tryResolveFreeze(g1, g1.players[i].id))
        ELSE IF res.triggersFlipThree
          THEN afterFlipThree(tryResolveFlipThree(g1, g1.players[i].id))
        ELSE IF g1.players[i].status = "passed"
          THEN advanceToNextPlayer(
                 SetRoundScore(g1, i, calculateRoundScore(g1.players[i].cards)))
        ELSE advanceToNextPlayer(g1)
      processed(pr) ==
        [result |-> pr.result,
         g |-> branch(IF pr.result.extraSecondChance
                        THEN giveSecondChanceToOtherPlayer(pr.g, card) ELSE pr.g,
                      pr.result)]
  IN processed(Logged(processDrawnCard(g, i, card), "hit", i))

\* hit that does not ask whose turn it is
hit_OutOfTurn(g, playerId, shuffled) ==
  LET i == SeatOf(g, playerId)
  IN IF i = -1 \/ g.players[i].status # "active" THEN [g |-> g, result |-> NoResult]
     ELSE IF g.phase # "PLAYER_TURN"
       THEN [g |-> g, result |-> NoResult]
     ELSE
       LET d == DeckDraw(g.deck)
       IN IF IsSome(d.card)
            THEN handleDrawnCard([g EXCEPT !.deck = d.deck], i, Val(d.card))
            ELSE LET d2 == DeckDraw(shuffled)
                     g2 == [g EXCEPT !.deck = d2.deck, !.discardPile = << >>]
                 IN IF IsSome(d2.card)
                      THEN handleDrawnCard(g2, i, Val(d2.card))
                      ELSE [g |-> g2, result |-> NoResult]

\* shuffled = the outcome of deck.shuffle() should the deck be found empty
\* hit that gives up on an empty deck instead of reshuffling the discard pile
hit_NoReshuffle(g, playerId, shuffled) ==
  LET i == SeatOf(g, playerId)
  IN IF i = -1 \/ g.players[i].status # "active" THEN [g |-> g, result |-> NoResult]
     ELSE IF g.phase # "PLAYER_TURN" \/ g.players[g.currentPlayerIndex].id # playerId
       THEN [g |-> g, result |-> NoResult]
     ELSE
       LET d == DeckDraw(g.deck)
       IN IF IsSome(d.card)
            THEN handleDrawnCard([g EXCEPT !.deck = d.deck], i, Val(d.card))
            ELSE [g |-> g, result |-> NoResult]

hit(g, playerId, shuffled) ==
  LET i == SeatOf(g, playerId)
  IN IF i = -1 \/ g.players[i].status # "active" THEN [g |-> g, result |-> NoResult]
     ELSE IF g.phase # "PLAYER_TURN" \/ g.players[g.currentPlayerIndex].id # playerId
       THEN [g |-> g, result |-> NoResult]
     ELSE
       LET d == DeckDraw(g.deck)
       IN IF IsSome(d.card)
            THEN handleDrawnCard([g EXCEPT !.deck = d.deck], i, Val(d.card))
            ELSE LET d2 == DeckDraw(shuffled)
                     g2 == [g EXCEPT !.deck = d2.deck, !.discardPile = << >>]
                 IN IF IsSome(d2.card)
                      THEN handleDrawnCard(g2, i, Val(d2.card))
                      ELSE [g |-> g2, result |-> NoResult]

\* the use = true branch of useSecondChance
useSecondChanceAccept(g, i) ==
  LET duplicateCard == Val(g.pendingSecondChance).duplicateCard
      k == getSecondChanceIndex(g.players[i])
      g1 == IF k # 0
              THEN Discard([g EXCEPT !.players[i].cards = RemoveAt(@, k)],
                           << g.players[i].cards[k], duplicateCard >>)
              ELSE g
      g2 == [g1 EXCEPT !.pendingSecondChance = None, !.phase = "PLAYER_TURN"]
  IN IF g2.flipThreeRemaining > 0 THEN executeFlipThree(g2, i) ELSE g2

\* the use = false branch that leaves the Flip Three count as it is
useSecondChanceDecline_KeepsCount(g, i) ==
  LET duplicateCard == Val(g.pendingSecondChance).duplicateCard
      g1 == Discard(SetRoundScore(SetStatus(g, i, "busted"), i, 0),
                    g.players[i].cards \o << duplicateCard >>)
  IN advanceToNextPlayer([g1 EXCEPT !.pendingSecondChance = None,
                                    !.phase = "PLAYER_TURN"])

\* the use = false branch of useSecondChance
useSecondChanceDecline(g, i) ==
  LET duplicateCard == Val(g.pendingSecondChance).duplicateCard
      g1 == Discard(SetRoundScore(SetStatus(g, i, "busted"), i, 0),
                    g.players[i].cards \o << duplicateCard >>)
  IN advanceToNextPlayer([g1 EXCEPT !.pendingSecondChance = None,
                                    !.flipThreeRemaining = 0,
                                    !.phase = "PLAYER_TURN"])

useSecondChance(g, playerId, use) ==
  IF g.phase # "AWAITING_SECOND_CHANCE" THEN [g |-> g, ok |-> FALSE]
  ELSE IF ~IsSome(g.pendingSecondChance) \/ Val(g.pendingSecondChance).playerId # playerId
    THEN [g |-> g, ok |-> FALSE]
  ELSE IF SeatOf(g, playerId) = -1 THEN [g |-> g, ok |-> FALSE]
  ELSE IF use
    THEN [g |-> useSecondChanceAccept(g, SeatOf(g, playerId)), ok |-> TRUE]
    ELSE [g |-> useSecondChanceDecline(g, SeatOf(g, playerId)), ok |-> TRUE]

\* pass that marks the player passed without scoring the hand
pass_KeepsRoundScore(g, playerId) ==
  LET i == SeatOf(g, playerId)
  IN IF i = -1 \/ g.players[i].status # "active" THEN [g |-> g, ok |-> FALSE]
     ELSE IF g.phase # "PLAYER_TURN" \/ g.players[g.currentPlayerIndex].id # playerId
       THEN [g |-> g, ok |-> FALSE]
     ELSE [g |-> advanceToNextPlayer(SetStatus(g, i, "passed")), ok |-> TRUE]

pass(g, playerId) ==
  LET i == SeatOf(g, playerId)
  IN IF i = -1 \/ g.players[i].status # "active" THEN [g |-> g, ok |-> FALSE]
     ELSE IF g.phase # "PLAYER_TURN" \/ g.players[g.currentPlayerIndex].id # playerId
       THEN [g |-> g, ok |-> FALSE]
     ELSE [g |-> advanceToNextPlayer(
                   SetRoundScore(SetStatus(g, i, "passed"), i, calculateRoundScore(g.players[i].cards))),
           ok |-> TRUE]

\* the freeze that leaves the round score of the target as it was
freezeTarget_KeepsRoundScore(g, playerId, targetPlayerId) ==
  LET t == SeatOf(g, targetPlayerId)
      g1 == [SetStatus(g, t, "frozen") EXCEPT !.pendingFreezeTarget = None]
      i == SeatOf(g1, playerId)
  IN IF IsSome(g1.pendingDealIndex)
       THEN continueInitialDeal([g1 EXCEPT !.phase = "DEALING"], Val(g1.pendingDealIndex))
     ELSE IF g1.flipThreeRemaining > 0
       THEN IF i # -1 /\ g1.players[i].status = "active"
              THEN executeFlipThree([g1 EXCEPT !.phase = "PLAYER_TURN"], i)
              ELSE advanceToNextPlayer([g1 EXCEPT !.phase = "PLAYER_TURN",
                                                  !.flipThreeRemaining = 0])
     ELSE advanceToNextPlayer([g1 EXCEPT !.phase = "PLAYER_TURN"])

\* selectFreezeTarget once its checks have passed: freeze the target, then resume
freezeTarget(g, playerId, targetPlayerId) ==
  LET t == SeatOf(g, targetPlayerId)
      g1 == [SetRoundScore(SetStatus(g, t, "frozen"), t, calculateRoundScore(g.players[t].cards))
               EXCEPT !.pendingFreezeTarget = None]
      i == SeatOf(g1, playerId)
  IN IF IsSome(g1.pendingDealIndex)
       THEN continueInitialDeal([g1 EXCEPT !.phase = "DEALING"], Val(g1.pendingDealIndex))
     ELSE IF g1.flipThreeRemaining > 0
       THEN IF i # -1 /\ g1.players[i].status = "active"
              THEN executeFlipThree([g1 EXCEPT !.phase = "PLAYER_TURN"], i)
              ELSE advanceToNextPlayer([g1 EXCEPT !.phase = "PLAYER_TURN",
                                                  !.flipThreeRemaining = 0])
     ELSE advanceToNextPlayer([g1 EXCEPT !.phase = "PLAYER_TURN"])

selectFreezeTarget(g, playerId, targetPlayerId) ==
  IF g.phase # "AWAITING_FREEZE_TARGET" THEN [g |-> g, ok |-> FALSE]
  ELSE IF ~IsSome(g.pendingFreezeTarget) \/ Val(g.pendingFreezeTarget).playerId # playerId
    THEN [g |-> g, ok |-> FALSE]
  ELSE IF targetPlayerId \notin Range(Val(g.pendingFreezeTarget).eligibleTargets)
    THEN [g |-> g, ok |-> FALSE]
  ELSE IF SeatOf(g, targetPlayerId) = -1 \/ g.players[SeatOf(g, targetPlayerId)].status # "active"
    THEN [g |-> g, ok |-> FALSE]
  ELSE [g |-> freezeTarget(g, playerId, targetPlayerId), ok |-> TRUE]

selectFlipThreeTarget(g, playerId, targetPlayerId) ==
  IF g.phase # "AWAITING_FLIP_THREE_TARGET" THEN [g |-> g, ok |-> FALSE]
  ELSE IF ~IsSome(g.pendingFlipThreeTarget) \/ Val(g.pendingFlipThreeTarget).playerId # playerId
    THEN [g |-> g, ok |-> FALSE]
  ELSE IF targetPlayerId \notin Range(Val(g.pendingFlipThreeTarget).eligibleTargets)
    THEN [g |-> g, ok |-> FALSE]
  ELSE IF SeatOf(g, targetPlayerId) = -1 \/ g.players[SeatOf(g, targetPlayerId)].status # "active"
    THEN [g |-> g, ok |-> FALSE]
  ELSE
    LET executed(g1) ==
          [ok |-> TRUE,
           g |-> IF g1.phase = "PLAYER_TURN" THEN advanceToNextPlayer(g1) ELSE g1]
    IN executed(executeFlipThree([g EXCEPT !.pendingFlipThreeTarget = None,
                                           !.phase = "PLAYER_TURN",
                                           !.flipThreeRemaining = FlipThreeDraws],
                                 SeatOf(g, targetPlayerId)))

\* ------------------------------------------------- connection, teardown
\* playerDisconnected that leaves the turn with the player who left
playerDisconnected_KeepsTurn(g, playerId) ==
  LET i == SeatOf(g, playerId)
  IN IF i = -1 THEN g
     ELSE [g EXCEPT !.players[i].isConnected = FALSE,
                    !.players[i].status = IF @ = "active" THEN "disconnected" ELSE @]

playerDisconnected(g, playerId) ==
  LET i == SeatOf(g, playerId)
  IN IF i = -1 THEN g
     ELSE LET g1 == [g EXCEPT !.players[i].isConnected = FALSE,
                              !.players[i].status = IF @ = "active" THEN "disconnected" ELSE @]
          IN IF g1.players[g1.currentPlayerIndex].id = playerId /\ g1.phase = "PLAYER_TURN"
               THEN advanceToNextPlayer(g1) ELSE g1

\* playerReconnected that puts the player back in play whatever the status was
playerReconnected_BackInPlay(g, playerId) ==
  LET i == SeatOf(g, playerId)
  IN IF i = -1 THEN g
     ELSE [g EXCEPT !.players[i].isConnected = TRUE, !.players[i].status = "active"]

playerReconnected(g, playerId) ==
  LET i == SeatOf(g, playerId)
  IN IF i = -1 THEN g
     ELSE [g EXCEPT !.players[i].isConnected = TRUE,
                    !.players[i].status = IF @ = "disconnected" THEN "active" ELSE @]

updatePlayerId(g, oldId, newId) ==
  LET i == SeatOf(g, oldId)
      g1 == IF i # -1 THEN [g EXCEPT !.players[i].id = newId] ELSE g
  IN IF IsSome(g1.pendingSecondChance) /\ Val(g1.pendingSecondChance).playerId = oldId
       THEN [g1 EXCEPT !.pendingSecondChance = Some([Val(@) EXCEPT !.playerId = newId])]
       ELSE g1

cleanup(g) ==
  IF g.roundStartTimeout
    THEN [g EXCEPT !.roundStartTimeout = FALSE, !.timers = @ - 1]
    ELSE g

\* the timeout callback of a game that rebuilds the deck for every round
roundStartTimeoutFired_ResetsDeck(g) ==
  startNewRound([g EXCEPT !.roundStartTimeout = FALSE, !.timers = @ - 1,
                          !.deck = Reverse(BaseOrder)])

\* the callback endRound hands to setTimeout
roundStartTimeoutFired(g) ==
  startNewRound([g EXCEPT !.roundStartTimeout = FALSE, !.timers = @ - 1])

startGame(g, dealer) == startNewRound([g EXCEPT !.dealerIndex = dealer])

\* ----------------------------------------------------------------- state
VARIABLES
  \* the fields of the Game object
  deck, discardPile, players, phase, currentPlayerIndex, dealerIndex, round,
  pendingSecondChance, pendingFreezeTarget, pendingFlipThreeTarget,
  pendingFlipThreeFreeze, pendingDealIndex, flipThreeRemaining, winnerId,
  roundStartTimeout,
  \* the timeouts scheduled with setTimeout and not yet fired or cleared
  timers,
  \* how often the onRoundStart hook has been invoked
  roundStarts,
  \* observation: the cards drawn by the last call, the last call itself, who
  \* took the last turn, and the budgets left to the environment
  drawn, lastOp, turnOf, contested, budget, disconnects, renames, cleanedUp

engineVars ==
  << deck, discardPile, players, phase, currentPlayerIndex, dealerIndex, round,
     pendingSecondChance, pendingFreezeTarget, pendingFlipThreeTarget,
     pendingFlipThreeFreeze, pendingDealIndex, flipThreeRemaining, winnerId,
     roundStartTimeout, timers, roundStarts >>
vars ==
  << engineVars, drawn, lastOp, turnOf, contested, budget, disconnects, renames, cleanedUp >>

\* the fields of the Game object, as one record
Engine ==
  [deck |-> deck,
   discardPile |-> discardPile,
   players |-> players,
   phase |-> phase,
   currentPlayerIndex |-> currentPlayerIndex,
   dealerIndex |-> dealerIndex,
   round |-> round,
   pendingSecondChance |-> pendingSecondChance,
   pendingFreezeTarget |-> pendingFreezeTarget,
   pendingFlipThreeTarget |-> pendingFlipThreeTarget,
   pendingFlipThreeFreeze |-> pendingFlipThreeFreeze,
   pendingDealIndex |-> pendingDealIndex,
   flipThreeRemaining |-> flipThreeRemaining,
   winnerId |-> winnerId,
   roundStartTimeout |-> roundStartTimeout,
   timers |-> timers,
   roundStarts |-> roundStarts,
   drawn |-> << >>]

Commit(g) ==
  /\ deck' = g.deck
  /\ discardPile' = g.discardPile
  /\ players' = g.players
  /\ phase' = g.phase
  /\ currentPlayerIndex' = g.currentPlayerIndex
  /\ dealerIndex' = g.dealerIndex
  /\ round' = g.round
  /\ pendingSecondChance' = g.pendingSecondChance
  /\ pendingFreezeTarget' = g.pendingFreezeTarget
  /\ pendingFlipThreeTarget' = g.pendingFlipThreeTarget
  /\ pendingFlipThreeFreeze' = g.pendingFlipThreeFreeze
  /\ pendingDealIndex' = g.pendingDealIndex
  /\ flipThreeRemaining' = g.flipThreeRemaining
  /\ winnerId' = g.winnerId
  /\ roundStartTimeout' = g.roundStartTimeout
  /\ timers' = g.timers
  /\ roundStarts' = g.roundStarts
  /\ drawn' = g.drawn

Op(name, seat, playerId, target, use, result) ==
  [name |-> name, seat |-> seat, playerId |-> playerId, target |-> target, use |-> use, result |-> result]
OkResult == [NoResult EXCEPT !.ok = TRUE]

NumActive(g) == Cardinality(getEligibleFreezeTargetsSeats(g))

\* bookkeeping of who took the last turn of the round and whether more than
\* one player has been in contention ever since
Turn(g2, seat) == /\ turnOf' = seat
                  /\ contested' = (NumActive(g2) > 1)
KeepTurn(g2) == /\ turnOf' = turnOf
                /\ contested' = (contested /\ NumActive(g2) > 1)
NewRoundTurn == /\ turnOf' = -1
                /\ contested' = FALSE

Init ==
  /\ deck \in InitialDecks
  /\ discardPile = << >>
  /\ players = [i \in Seats |->
                  [id |-> InitialIds[i], score |-> 0, roundScore |-> 0, cards |-> << >>,
                   status |-> "active", isConnected |-> TRUE]]
  /\ phase = "LOBBY"
  /\ currentPlayerIndex = 0
  /\ dealerIndex = 0
  /\ round = 0
  /\ pendingSecondChance = None
  /\ pendingFreezeTarget = None
  /\ pendingFlipThreeTarget = None
  /\ pendingFlipThreeFreeze = None
  /\ pendingDealIndex = None
  /\ flipThreeRemaining = 0
  /\ winnerId = None
  /\ roundStartTimeout = FALSE
  /\ timers = 0
  /\ roundStarts = 0
  /\ drawn = << >>
  /\ lastOp = Op("new", -1, NoId, NoId, FALSE, NoResult)
  /\ turnOf = -1
  /\ contested = FALSE
  /\ budget = MaxIntents
  /\ disconnects = 0
  /\ renames = 0
  /\ cleanedUp = FALSE

\* --------------------------------------------------------------- actions
\* the room layer calls startGame once, on the freshly constructed game
StartGame ==
  /\ phase = "LOBBY" /\ ~cleanedUp
  /\ \E dealer \in Seats :
       /\ Commit(startGame(Engine, dealer))
       /\ lastOp' = Op("startGame", dealer, NoId, NoId, FALSE, OkResult)
  /\ NewRoundTurn
  /\ UNCHANGED << disconnects, renames, cleanedUp >>
  /\ UNCHANGED budget

Hit ==
  /\ ~cleanedUp /\ budget > 0
  /\ budget' = budget - 1
  /\ \E i \in Seats : \E shuffled \in ShuffleOutcomes(DeckAddCards(deck, discardPile)) :
       \E r \in {hit(Engine, players[i].id, shuffled)} :
          /\ r.result.ok
          /\ Commit(r.g)
          /\ lastOp' = Op("hit", i, players[i].id, NoId, FALSE, r.result)
          /\ Turn(r.g, i)
  /\ UNCHANGED << disconnects, renames, cleanedUp >>

Pass ==
  /\ ~cleanedUp /\ budget > 0
  /\ budget' = budget - 1
  /\ \E i \in Seats :
       \E r \in {pass(Engine, players[i].id)} :
          /\ r.ok
          /\ Commit(r.g)
          /\ lastOp' = Op("pass", i, players[i].id, NoId, FALSE, OkResult)
          /\ Turn(r.g, i)
  /\ UNCHANGED << disconnects, renames, cleanedUp >>

UseSecondChance ==
  /\ ~cleanedUp /\ budget > 0
  /\ budget' = budget - 1
  /\ \E i \in Seats : \E use \in BOOLEAN :
       \E r \in {useSecondChance(Engine, players[i].id, use)} :
          /\ r.ok
          /\ Commit(r.g)
          /\ lastOp' = Op("useSecondChance", i, players[i].id, NoId, use, OkResult)
          /\ KeepTurn(r.g)
  /\ UNCHANGED << disconnects, renames, cleanedUp >>

SelectFreezeTarget ==
  /\ ~cleanedUp /\ budget > 0
  /\ budget' = budget - 1
  /\ \E i \in Seats : \E t \in Seats :
       \E r \in {selectFreezeTarget(Engine, players[i].id, players[t].id)} :
          /\ r.ok
          /\ Commit(r.g)
          /\ lastOp' = Op("selectFreezeTarget", i, players[i].id, players[t].id, FALSE, OkResult)
          /\ KeepTurn(r.g)
  /\ UNCHANGED << disconnects, renames, cleanedUp >>

SelectFlipThreeTarget ==
  /\ ~cleanedUp /\ budget > 0
  /\ budget' = budget - 1
  /\ \E i \in Seats : \E t \in Seats :
       \E r \in {selectFlipThreeTarget(Engine, players[i].id, players[t].id)} :
          /\ r.ok
          /\ Commit(r.g)
          /\ lastOp' = Op("selectFlipThreeTarget", i, players[i].id, players[t].id, FALSE, OkResult)
          /\ KeepTurn(r.g)
  /\ UNCHANGED << disconnects, renames, cleanedUp >>

PlayerDisconnected ==
  /\ ~cleanedUp /\ phase # "LOBBY"
  /\ disconnects < MaxDisconnects
  /\ \E i \in Seats :
       /\ players[i].isConnected
       /\ \E g2 \in {playerDisconnected(Engine, players[i].id)} :
            /\ Commit(g2)
            /\ KeepTurn(g2)
       /\ lastOp' = Op("playerDisconnected", i, players[i].id, NoId, FALSE, OkResult)
  /\ disconnects' = disconnects + 1
  /\ UNCHANGED << renames, cleanedUp >>
  /\ UNCHANGED budget

PlayerReconnected ==
  /\ ~cleanedUp
  /\ \E i \in Seats :
       /\ ~players[i].isConnected
       /\ \E g2 \in {playerReconnected(Engine, players[i].id)} :
            /\ Commit(g2)
            /\ KeepTurn(g2)
       /\ lastOp' = Op("playerReconnected", i, players[i].id, NoId, FALSE, OkResult)
  /\ UNCHANGED << disconnects, renames, cleanedUp >>
  /\ UNCHANGED budget

\* a reconnecting player comes back under a new socket id
UpdatePlayerId ==
  /\ ~cleanedUp /\ phase # "LOBBY"
  /\ renames < MaxRenames
  /\ \E i \in Seats :
       /\ players[i].id = InitialIds[i]
       /\ \E g2 \in {updatePlayerId(Engine, players[i].id, FreshIds[i])} :
            /\ Commit(g2)
            /\ KeepTurn(g2)
       /\ lastOp' = Op("updatePlayerId", i, players[i].id, FreshIds[i], FALSE, OkResult)
  /\ renames' = renames + 1
  /\ UNCHANGED << disconnects, cleanedUp >>
  /\ UNCHANGED budget

Cleanup ==
  /\ ~cleanedUp /\ phase # "LOBBY"
  /\ \E g2 \in {cleanup(Engine)} :
       /\ Commit(g2)
       /\ KeepTurn(g2)
  /\ lastOp' = Op("cleanup", -1, NoId, NoId, FALSE, OkResult)
  /\ cleanedUp' = TRUE
  /\ UNCHANGED << disconnects, renames >>
  /\ UNCHANGED budget

\* ---------------------------------------------- intents the engine refuses
\* whoever may send an intent: the seated players and a caller the game does not know
Callers == {players[i].id : i \in Seats} \cup {NoId}

HitRejected ==
  /\ ~cleanedUp
  /\ \E playerId \in Callers : \E shuffled \in ShuffleOutcomes(DeckAddCards(deck, discardPile)) :
       \E r \in {hit(Engine, playerId, shuffled)} :
          /\ ~r.result.ok
          /\ Commit([r.g EXCEPT !.drawn = drawn])
          /\ lastOp' = Op("hit", SeatOf(Engine, playerId), playerId, NoId, FALSE, r.result)
  /\ UNCHANGED << turnOf, contested, budget, disconnects, renames, cleanedUp >>

PassRejected ==
  /\ ~cleanedUp
  /\ \E playerId \in Callers :
       \E r \in {pass(Engine, playerId)} :
          /\ ~r.ok
          /\ Commit([r.g EXCEPT !.drawn = drawn])
          /\ lastOp' = Op("pass", SeatOf(Engine, playerId), playerId, NoId, FALSE, NoResult)
  /\ UNCHANGED << turnOf, contested, budget, disconnects, renames, cleanedUp >>

UseSecondChanceRejected ==
  /\ ~cleanedUp
  /\ \E playerId \in Callers : \E use \in BOOLEAN :
       \E r \in {useSecondChance(Engine, playerId, use)} :
          /\ ~r.ok
          /\ Commit([r.g EXCEPT !.drawn = drawn])
          /\ lastOp' = Op("useSecondChance", SeatOf(Engine, playerId), playerId, NoId, use, NoResult)
  /\ UNCHANGED << turnOf, contested, budget, disconnects, renames, cleanedUp >>

SelectFreezeTargetRejected ==
  /\ ~cleanedUp
  /\ \E playerId \in Callers : \E targetPlayerId \in Callers :
       \E r \in {selectFreezeTarget(Engine, playerId, targetPlayerId)} :
          /\ ~r.ok
          /\ Commit([r.g EXCEPT !.drawn = drawn])
          /\ lastOp' = Op("selectFreezeTarget", SeatOf(Engine, playerId), playerId,
                          targetPlayerId, FALSE, NoResult)
  /\ UNCHANGED << turnOf, contested, budget, disconnects, renames, cleanedUp >>

SelectFlipThreeTargetRejected ==
  /\ ~cleanedUp
  /\ \E playerId \in Callers : \E targetPlayerId \in Callers :
       \E r \in {selectFlipThreeTarget(Engine, playerId, targetPlayerId)} :
          /\ ~r.ok
          /\ Commit([r.g EXCEPT !.drawn = drawn])
          /\ lastOp' = Op("selectFlipThreeTarget", SeatOf(Engine, playerId), playerId,
                          targetPlayerId, FALSE, NoResult)
  /\ UNCHANGED << turnOf, contested, budget, disconnects, renames, cleanedUp >>

RoundStartTimeoutFired ==
  /\ timers > 0
  /\ round < MaxRounds
  /\ Commit(roundStartTimeoutFired(Engine))
  /\ lastOp' = Op("roundStartTimeout", -1, NoId, NoId, FALSE, OkResult)
  /\ NewRoundTurn
  /\ UNCHANGED << disconnects, renames, cleanedUp >>
  /\ UNCHANGED budget

Next ==
  \/ StartGame
  \/ Hit
  \/ Pass
  \/ UseSecondChance
  \/ SelectFreezeTarget
  \/ SelectFlipThreeTarget
  \/ RoundStartTimeoutFired

\* the game as the players drive it, every player connected throughout
Spec == Init /\ [][Next]_vars

\* the same game with every intent delivered, the refused ones included
InitAudited ==
  \E d \in AuditDecks :
    /\ deck = d
    /\ discardPile = << >>
    /\ players = [i \in Seats |->
                    [id |-> InitialIds[i], score |-> 0, roundScore |-> 0, cards |-> << >>,
                     status |-> "active", isConnected |-> TRUE]]
    /\ phase = "LOBBY" /\ currentPlayerIndex = 0 /\ dealerIndex = 0 /\ round = 0
    /\ pendingSecondChance = None /\ pendingFreezeTarget = None
    /\ pendingFlipThreeTarget = None /\ pendingFlipThreeFreeze = None
    /\ pendingDealIndex = None /\ flipThreeRemaining = 0 /\ winnerId = None
    /\ roundStartTimeout = FALSE /\ timers = 0 /\ roundStarts = 0 /\ drawn = << >>
    /\ lastOp = Op("new", -1, NoId, NoId, FALSE, NoResult)
    /\ turnOf = -1 /\ contested = FALSE
    /\ budget = MaxIntentsAudited
    /\ disconnects = 0 /\ renames = 0 /\ cleanedUp = FALSE

NextAudited ==
  \/ Next
  \/ HitRejected
  \/ PassRejected
  \/ UseSecondChanceRejected
  \/ SelectFreezeTargetRejected
  \/ SelectFlipThreeTargetRejected

SpecIntents == InitAudited /\ [][NextAudited]_vars

\* the player whose turn it is asks for a card and there is none to give
HitFindsNoCard ==
  /\ ~cleanedUp
  /\ phase = "PLAYER_TURN" /\ players[currentPlayerIndex].status = "active"
  /\ \E shuffled \in ShuffleOutcomes(DeckAddCards(deck, discardPile)) :
       \E r \in {hit(Engine, players[currentPlayerIndex].id, shuffled)} :
          /\ ~r.result.ok
          /\ Commit([r.g EXCEPT !.drawn = drawn])
          /\ lastOp' = Op("hit", currentPlayerIndex, players[currentPlayerIndex].id,
                          NoId, FALSE, r.result)
  /\ UNCHANGED << turnOf, contested, budget, disconnects, renames, cleanedUp >>

NextDraws == Next \/ HitFindsNoCard

\* the game of connected players, the draws that find no card included
SpecDraws == Init /\ [][NextDraws]_vars

\* the game with players dropping out, coming back under a new socket id, and
\* the room tearing the game down
InitConnections ==
  \E d \in AuditDecks :
    /\ deck = d
    /\ discardPile = << >>
    /\ players = [i \in Seats |->
                    [id |-> InitialIds[i], score |-> 0, roundScore |-> 0, cards |-> << >>,
                     status |-> "active", isConnected |-> TRUE]]
    /\ phase = "LOBBY" /\ currentPlayerIndex = 0 /\ dealerIndex = 0 /\ round = 0
    /\ pendingSecondChance = None /\ pendingFreezeTarget = None
    /\ pendingFlipThreeTarget = None /\ pendingFlipThreeFreeze = None
    /\ pendingDealIndex = None /\ flipThreeRemaining = 0 /\ winnerId = None
    /\ roundStartTimeout = FALSE /\ timers = 0 /\ roundStarts = 0 /\ drawn = << >>
    /\ lastOp = Op("new", -1, NoId, NoId, FALSE, NoResult)
    /\ turnOf = -1 /\ contested = FALSE
    /\ budget = MaxIntentsConnections
    /\ disconnects = 0 /\ renames = 0 /\ cleanedUp = FALSE

NextConnections ==
  \/ Next
  \/ PlayerDisconnected
  \/ PlayerReconnected
  \/ UpdatePlayerId
  \/ Cleanup

\* the long game in which nobody drops out or comes back, until the room tears
\* the game down
InitSettled ==
  \E d \in InitialDecks :
    /\ deck = d
    /\ discardPile = << >>
    /\ players = [i \in Seats |->
                    [id |-> InitialIds[i], score |-> 0, roundScore |-> 0, cards |-> << >>,
                     status |-> "active", isConnected |-> TRUE]]
    /\ phase = "LOBBY" /\ currentPlayerIndex = 0 /\ dealerIndex = 0 /\ round = 0
    /\ pendingSecondChance = None /\ pendingFreezeTarget = None
    /\ pendingFlipThreeTarget = None /\ pendingFlipThreeFreeze = None
    /\ pendingDealIndex = None /\ flipThreeRemaining = 0 /\ winnerId = None
    /\ roundStartTimeout = FALSE /\ timers = 0 /\ roundStarts = 0 /\ drawn = << >>
    /\ lastOp = Op("new", -1, NoId, NoId, FALSE, NoResult)
    /\ turnOf = -1 /\ contested = FALSE
    /\ budget = MaxIntents
    /\ disconnects = MaxDisconnects /\ renames = MaxRenames /\ cleanedUp = FALSE

\* round after round: the long game of connected players and the short game
\* with connection events
SpecRounds == (InitSettled \/ InitConnections) /\ [][NextConnections]_vars

\* the game of connected players whose initial deal meets the action cards
InitDeal ==
  \E d \in DealDecks :
    /\ deck = d
    /\ discardPile = << >>
    /\ players = [i \in Seats |->
                    [id |-> InitialIds[i], score |-> 0, roundScore |-> 0, cards |-> << >>,
                     status |-> "active", isConnected |-> TRUE]]
    /\ phase = "LOBBY" /\ currentPlayerIndex = 0 /\ dealerIndex = 0 /\ round = 0
    /\ pendingSecondChance = None /\ pendingFreezeTarget = None
    /\ pendingFlipThreeTarget = None /\ pendingFlipThreeFreeze = None
    /\ pendingDealIndex = None /\ flipThreeRemaining = 0 /\ winnerId = None
    /\ roundStartTimeout = FALSE /\ timers = 0 /\ roundStarts = 0 /\ drawn = << >>
    /\ lastOp = Op("new", -1, NoId, NoId, FALSE, NoResult)
    /\ turnOf = -1 /\ contested = FALSE
    /\ budget = MaxIntentsDeal
    /\ disconnects = 0 /\ renames = 0 /\ cleanedUp = FALSE

SpecDeal == InitDeal /\ [][Next]_vars

\* the game of connected players played with the numbers 0 to 6
InitSeven ==
  \E d \in SevenDecks :
    /\ deck = d
    /\ discardPile = << >>
    /\ players = [i \in Seats |->
                    [id |-> InitialIds[i], score |-> 0, roundScore |-> 0, cards |-> << >>,
                     status |-> "active", isConnected |-> TRUE]]
    /\ phase = "LOBBY" /\ currentPlayerIndex = 0 /\ dealerIndex = 0 /\ round = 0
    /\ pendingSecondChance = None /\ pendingFreezeTarget = None
    /\ pendingFlipThreeTarget = None /\ pendingFlipThreeFreeze = None
    /\ pendingDealIndex = None /\ flipThreeRemaining = 0 /\ winnerId = None
    /\ roundStartTimeout = FALSE /\ timers = 0 /\ roundStarts = 0 /\ drawn = << >>
    /\ lastOp = Op("new", -1, NoId, NoId, FALSE, NoResult)
    /\ turnOf = -1 /\ contested = FALSE
    /\ budget = MaxIntentsSeven
    /\ disconnects = 0 /\ renames = 0 /\ cleanedUp = FALSE

SpecSeven == InitSeven /\ [][Next]_vars

\* the short game with connection events in which a choice is pending when a
\* player drops out
InitDropouts ==
  \E d \in DropoutDecks :
    /\ deck = d
    /\ discardPile = << >>
    /\ players = [i \in Seats |->
                    [id |-> InitialIds[i], score |-> 0, roundScore |-> 0, cards |-> << >>,
                     status |-> "active", isConnected |-> TRUE]]
    /\ phase = "LOBBY" /\ currentPlayerIndex = 0 /\ dealerIndex = 0 /\ round = 0
    /\ pendingSecondChance = None /\ pendingFreezeTarget = None
    /\ pendingFlipThreeTarget = None /\ pendingFlipThreeFreeze = None
    /\ pendingDealIndex = None /\ flipThreeRemaining = 0 /\ winnerId = None
    /\ roundStartTimeout = FALSE /\ timers = 0 /\ roundStarts = 0 /\ drawn = << >>
    /\ lastOp = Op("new", -1, NoId, NoId, FALSE, NoResult)
    /\ turnOf = -1 /\ contested = FALSE
    /\ budget = MaxIntentsDropouts
    /\ disconnects = 0 /\ renames = 0 /\ cleanedUp = FALSE

SpecDropouts == InitDropouts /\ [][NextConnections]_vars

\* the game of connected players who answer in the end: an intent the engine
\* would accept is delivered sooner or later (each client shows the prompt to
\* its player)
InitFair ==
  \E d \in LastStandingDecks :
    /\ deck = d
    /\ discardPile = << >>
    /\ players = [i \in Seats |->
                    [id |-> InitialIds[i], score |-> 0, roundScore |-> 0, cards |-> << >>,
                     status |-> "active", isConnected |-> TRUE]]
    /\ phase = "LOBBY" /\ currentPlayerIndex = 0 /\ dealerIndex = 0 /\ round = 0
    /\ pendingSecondChance = None /\ pendingFreezeTarget = None
    /\ pendingFlipThreeTarget = None /\ pendingFlipThreeFreeze = None
    /\ pendingDealIndex = None /\ flipThreeRemaining = 0 /\ winnerId = None
    /\ roundStartTimeout = FALSE /\ timers = 0 /\ roundStarts = 0 /\ drawn = << >>
    /\ lastOp = Op("new", -1, NoId, NoId, FALSE, NoResult)
    /\ turnOf = -1 /\ contested = FALSE
    /\ budget = MaxIntentsFair
    /\ disconnects = 0 /\ renames = 0 /\ cleanedUp = FALSE

\* an intent of a player that the engine accepts
AcceptedIntent == Hit \/ Pass \/ UseSecondChance \/ SelectFreezeTarget \/ SelectFlipThreeTarget

SpecFair == InitFair /\ [][Next]_vars /\ WF_vars(AcceptedIntent)

\* ------------------------------------------------------ the deck alone
\* a freshly built deck on which draw, drawMultiple and addCards are called;
\* drawn holds the cards the last call returned, lastOp.target its count argument
InitDeck ==
  \E d \in InitialDecks :
    /\ deck = d
    /\ discardPile = << >>
    /\ players = [i \in Seats |->
                    [id |-> InitialIds[i], score |-> 0, roundScore |-> 0, cards |-> << >>,
                     status |-> "active", isConnected |-> TRUE]]
    /\ phase = "LOBBY" /\ currentPlayerIndex = 0 /\ dealerIndex = 0 /\ round = 0
    /\ pendingSecondChance = None /\ pendingFreezeTarget = None
    /\ pendingFlipThreeTarget = None /\ pendingFlipThreeFreeze = None
    /\ pendingDealIndex = None /\ flipThreeRemaining = 0 /\ winnerId = None
    /\ roundStartTimeout = FALSE /\ timers = 0 /\ roundStarts = 0 /\ drawn = << >>
    /\ lastOp = Op("new", -1, NoId, 0, FALSE, OkResult)
    /\ turnOf = -1 /\ contested = FALSE
    /\ budget = MaxDeckCalls
    /\ disconnects = 0 /\ renames = 0 /\ cleanedUp = FALSE

DeckFrame ==
  UNCHANGED << discardPile, players, phase, currentPlayerIndex, dealerIndex, round,
               pendingSecondChance, pendingFreezeTarget, pendingFlipThreeTarget,
               pendingFlipThreeFreeze, pendingDealIndex, flipThreeRemaining, winnerId,
               roundStartTimeout, timers, roundStarts, turnOf, contested,
               disconnects, renames, cleanedUp >>

DeckDrawCalled ==
  /\ budget > 0 /\ budget' = budget - 1
  /\ \E r \in {DeckDraw(deck)} :
       /\ deck' = r.deck
       /\ drawn' = r.card
  /\ lastOp' = Op("draw", -1, NoId, 0, FALSE, OkResult)
  /\ DeckFrame

DeckDrawMultipleCalled ==
  /\ budget > 0 /\ budget' = budget - 1
  /\ \E count \in 0..MaxDrawMultiple :
       /\ \E r \in {DeckDrawMultiple(deck, count)} :
            /\ deck' = r.deck
            /\ drawn' = r.cards
       /\ lastOp' = Op("drawMultiple", -1, NoId, count, FALSE, OkResult)
  /\ DeckFrame

\* the cards handed back are cards drawn before, as they came or turned over
DeckAddCardsCalled ==
  /\ budget > 0 /\ budget' = budget - 1
  /\ \E cs \in {drawn, Reverse(drawn)} :
       /\ deck' = DeckAddCards(deck, cs)
       /\ drawn' = cs
       /\ lastOp' = Op("addCards", -1, NoId, Len(cs), FALSE, OkResult)
  /\ DeckFrame

NextDeck == DeckDrawCalled \/ DeckDrawMultipleCalled \/ DeckAddCardsCalled

SpecDeck == InitDeck /\ [][NextDeck]_vars

\* ------------------------------------------------- the scoring of hands
\* calculateRoundScore applied to hands of seat 0 that grow card by card, in
\* every order, from an empty hand and from a hand of six different numbers
ScoredBases == { << >>, << 11, 12, 13, 1, 3, 5 >> }
ScoredPool == { 2, 6, 10, 14, 15, 16 }

InitScoring ==
  \E base \in ScoredBases :
    /\ deck = Reverse(BaseOrder)
    /\ discardPile = << >>
    /\ players = [i \in Seats |->
                    [id |-> InitialIds[i], score |-> 0,
                     roundScore |-> IF i = 0 THEN calculateRoundScore(base) ELSE 0,
                     cards |-> IF i = 0 THEN base ELSE << >>,
                     status |-> "active", isConnected |-> TRUE]]
    /\ phase = "LOBBY" /\ currentPlayerIndex = 0 /\ dealerIndex = 0 /\ round = 0
    /\ pendingSecondChance = None /\ pendingFreezeTarget = None
    /\ pendingFlipThreeTarget = None /\ pendingFlipThreeFreeze = None
    /\ pendingDealIndex = None /\ flipThreeRemaining = 0 /\ winnerId = None
    /\ roundStartTimeout = FALSE /\ timers = 0 /\ roundStarts = 0 /\ drawn = << >>
    /\ lastOp = Op("calculateRoundScore", 0, NoId, NoId, FALSE, OkResult)
    /\ turnOf = -1 /\ contested = FALSE
    /\ budget = MaxScoredCards
    /\ disconnects = 0 /\ renames = 0 /\ cleanedUp = FALSE

ScoringFrame ==
  UNCHANGED << deck, discardPile, phase, currentPlayerIndex, dealerIndex, round,
               pendingSecondChance, pendingFreezeTarget, pendingFlipThreeTarget,
               pendingFlipThreeFreeze, pendingDealIndex, flipThreeRemaining, winnerId,
               roundStartTimeout, timers, roundStarts, drawn, lastOp, turnOf, contested,
               disconnects, renames, cleanedUp >>

\* one more card is put behind the hand and the hand is scored
ScoreLongerHand ==
  /\ budget > 0
  /\ budget' = budget - 1
  /\ \E c \in ScoredPool \ Range(players[0].cards) :
       \E cards \in {Append(players[0].cards, c)} :
          players' = [players EXCEPT ![0].cards = cards,
                                     ![0].roundScore = calculateRoundScore(cards)]
  /\ ScoringFrame

\* the same cards are scored in another order
ScoreReorderedHand ==
  /\ Len(players[0].cards) > 1
  /\ \E cards \in {Rotate(players[0].cards, 1)} :
       players' = [players EXCEPT ![0].cards = cards,
                                  ![0].roundScore = calculateRoundScore(cards)]
  /\ UNCHANGED budget
  /\ ScoringFrame

NextScoring == ScoreLongerHand \/ ScoreReorderedHand

SpecScoring == InitScoring /\ [][NextScoring]_vars

TypeOK ==
  /\ phase \in {"LOBBY", "DEALING", "PLAYER_TURN", "AWAITING_SECOND_CHANCE", "AWAITING_FREEZE_TARGET",
                "AWAITING_FLIP_THREE_TARGET", "ROUND_END", "GAME_END"}
  /\ currentPlayerIndex \in Seats
  /\ dealerIndex \in Seats
  /\ \A i \in Seats : players[i].status \in {"active", "passed", "busted", "frozen", "disconnected"}

\* ------------------------------------------------------------ properties
RoundOver == phase \in {"ROUND_END", "GAME_END"}
Banked(p) == IF p.status \in {"passed", "frozen"} THEN p.roundScore ELSE 0

\* C1: when a round ends (the phase becomes ROUND_END or GAME_END), each player's
\* cumulative score grows by exactly their round score if they stopped or were
\* stopped, and by nothing otherwise: the accumulation is applied once.
C1_RoundEndBanksOnce ==
  [][(~RoundOver /\ RoundOver') =>
       \A i \in Seats : players'[i].score = players[i].score + Banked(players'[i])]_vars

IntentNames == {"hit", "pass", "useSecondChance", "selectFreezeTarget", "selectFlipThreeTarget"}

\* the intent op, sent in the current state, is one the game must refuse: wrong
\* phase, not the player whose decision is awaited, or a target that is not
\* eligible or no longer active
Misuse(op) ==
  CASE op.name \in {"hit", "pass"} ->
         phase # "PLAYER_TURN" \/ players[currentPlayerIndex].id # op.playerId
    [] op.name = "useSecondChance" ->
         \/ phase # "AWAITING_SECOND_CHANCE"
         \/ ~IsSome(pendingSecondChance)
         \/ Val(pendingSecondChance).playerId # op.playerId
    [] op.name = "selectFreezeTarget" ->
         \/ phase # "AWAITING_FREEZE_TARGET"
         \/ ~IsSome(pendingFreezeTarget)
         \/ Val(pendingFreezeTarget).playerId # op.playerId
         \/ op.target \notin Range(Val(pendingFreezeTarget).eligibleTargets)
         \/ \A i \in Seats : players[i].id = op.target => players[i].status # "active"
    [] op.name = "selectFlipThreeTarget" ->
         \/ phase # "AWAITING_FLIP_THREE_TARGET"
         \/ ~IsSome(pendingFlipThreeTarget)
         \/ Val(pendingFlipThreeTarget).playerId # op.playerId
         \/ op.target \notin Range(Val(pendingFlipThreeTarget).eligibleTargets)
         \/ \A i \in Seats : players[i].id = op.target => players[i].status # "active"
    [] OTHER -> FALSE

\* C2: an intent sent in the wrong phase, by someone other than the player whose
\* decision is awaited, or naming a target that is not eligible or not active
\* any more, is refused and leaves every field of the game as it was.
C2_RefusedIntentChangesNothing ==
  [][(lastOp'.name \in IntentNames /\ Misuse(lastOp')) =>
       (~lastOp'.result.ok /\ UNCHANGED engineVars)]_vars

\* the awaited player has just named a seated player who is out of the round
C2_Witness ==
  /\ lastOp.name = "selectFreezeTarget" /\ ~lastOp.result.ok
  /\ phase = "AWAITING_FREEZE_TARGET"
  /\ IsSome(pendingFreezeTarget) /\ Val(pendingFreezeTarget).playerId = lastOp.playerId
  /\ \E t \in Seats : players[t].id = lastOp.target /\ players[t].status # "active"

Awaiting == {"AWAITING_SECOND_CHANCE", "AWAITING_FREEZE_TARGET", "AWAITING_FLIP_THREE_TARGET"}

\* C3: after an accepted hit that did not pause on a pending decision, with at
\* least two players still active, the turn pointer is on another player and a
\* further hit by the same player is refused.
C3_TurnMovesOn ==
  (/\ lastOp.name = "hit" /\ lastOp.result.ok
   /\ phase \notin Awaiting
   /\ NumActive(Engine) >= 2)
  => /\ currentPlayerIndex # lastOp.seat
     /\ \A shuffled \in ShuffleOutcomes(DeckAddCards(deck, discardPile)) :
          ~hit(Engine, players[lastOp.seat].id, shuffled).result.ok

\* a plain draw has just been accepted and its drawer is still in the round with others
C3_Witness ==
  /\ lastOp.name = "hit" /\ lastOp.result.ok
  /\ phase = "PLAYER_TURN"
  /\ NumActive(Engine) >= 2
  /\ players[lastOp.seat].status = "active"
  /\ deck # << >>

\* C4: within a round no player takes two turns in a row while another player
\* is still in the round: between two accepted hits or passes of the same
\* player there is a turn of somebody else, unless that player was left alone.
C4_NoTwoTurnsInARow ==
  [][(lastOp'.name \in {"hit", "pass"} /\ lastOp'.result.ok)
       => ~(turnOf = lastOp'.seat /\ contested)]_vars

\* the draws of the last call in which a holder of a Second Chance drew a duplicate number
InsuredDuplicates == {k \in 1..Len(drawn) : drawn[k].isBust /\ drawn[k].hasSecondChance}

\* the game stopped on draw k and waits for the drawer's bust choice, nothing given up yet
PausedOn(k) ==
  /\ k = Len(drawn)
  /\ phase = "AWAITING_SECOND_CHANCE"
  /\ pendingSecondChance = Some([playerId |-> players[drawn[k].seat].id,
                                 duplicateCard |-> drawn[k].card])
  /\ players[drawn[k].seat].status = "active"
  /\ \E c \in Range(players[drawn[k].seat].cards) : IsSecondChance(c)

IsPrefix(s, t) == Len(s) <= Len(t) /\ SubSeq(t, 1, Len(s)) = s
Untouched(i) ==
  /\ players'[i].cards = players[i].cards
  /\ players'[i].status = players[i].status
  /\ players'[i].score = players[i].score
  /\ players'[i].roundScore = players[i].roundScore
BustChoice(use) ==
  lastOp'.name = "useSecondChance" /\ lastOp'.result.ok /\ lastOp'.use = use

FirstInPlayAfter(ps, from, j) ==
  LET inPlay(x) == ps[x].status = "active" /\ ps[x].isConnected
      steps(x) == ((x - from - 1) + MinPlayers) % MinPlayers
  IN inPlay(j) /\ \A x \in Seats : inPlay(x) => steps(j) <= steps(x)

\* C7: an accepted bust choice with accept = false marks the answering player
\* busted with round score 0, puts their whole hand and then the duplicate on
\* the discard pile, resets the Flip Three count to 0, clears the pending record
\* and moves the turn to the next active connected player, or ends the round
\* when there is none.
C7_DeclineBusts ==
  [][BustChoice(FALSE) =>
       LET i == lastOp'.seat
           dup == Val(pendingSecondChance).duplicateCard
       IN /\ players'[i].status = "busted"
          /\ players'[i].roundScore = 0
          /\ discardPile' = discardPile \o players[i].cards \o << dup >>
          /\ flipThreeRemaining' = 0
          /\ pendingSecondChance' = None
          /\ \A j \in Seats \ {i} : players'[j].cards = players[j].cards
                                      /\ players'[j].status = players[j].status
          /\ IF \E j \in Seats : players'[j].status = "active" /\ players'[j].isConnected
               THEN /\ phase' = "PLAYER_TURN"
                    /\ FirstInPlayAfter(players', currentPlayerIndex, currentPlayerIndex')
               ELSE phase' \in {"ROUND_END", "GAME_END"}]_vars

\* a bust choice declined by the target of another player's Flip Three, with
\* others still playing
C7_Witness ==
  /\ lastOp.name = "useSecondChance" /\ ~lastOp.use /\ lastOp.result.ok
  /\ lastOp.seat # turnOf
  /\ players[lastOp.seat].status = "busted"
  /\ phase = "PLAYER_TURN"
  /\ discardPile # << >>

\* the draws of the last call in which a player without Second Chance drew a duplicate number
UninsuredDuplicates == {k \in 1..Len(drawn) : drawn[k].isBust /\ ~drawn[k].hasSecondChance}

\* C8: a player without Second Chance who draws a duplicate number, on a normal
\* draw, in a Flip Three during play or in a Flip Three during the deal, is
\* busted with round score 0, and the whole hand and the offending card are on
\* the discard pile.
C8_UninsuredDuplicateDiscardsHand ==
  \A k \in UninsuredDuplicates :
    /\ players[drawn[k].seat].status = "busted"
    /\ players[drawn[k].seat].roundScore = 0
    /\ drawn[k].card \in Range(discardPile)
    /\ Range(players[drawn[k].seat].cards) \subseteq Range(discardPile)

CountIn(s, c) == Cardinality({k \in 1..Len(s) : s[k] = c})
\* in how many places card c is: deck, hands, discard pile, pending duplicate
Places(c) ==
  CountIn(deck, c) + CountIn(discardPile, c) + CountIn(AllHands(Engine, 0), c)
  + (IF IsSome(pendingSecondChance) /\ Val(pendingSecondChance).duplicateCard = c THEN 1 ELSE 0)

\* C9: every card of the population is in exactly one place, the deck, one
\* hand, the discard pile or the duplicate of a pending bust choice; no card is
\* lost and none is in two zones.
C9_EveryCardInOnePlace == \A c \in Cards : Places(c) = 1

\* C10: a Freeze drawn on a normal draw with exactly one player active and
\* connected freezes that player at once, round score = score of the hand, and
\* asks for no target; with more than one eligible nobody is frozen and the game
\* pauses in AWAITING_FREEZE_TARGET with a record naming the drawer and listing
\* exactly the active connected players, the drawer included.
C10_FreezeOnNormalDraw ==
  [][(lastOp'.name = "hit" /\ lastOp'.result.ok /\ lastOp'.result.triggersFreeze) =>
       LET i == lastOp'.seat
           eligible == {j \in Seats : players[j].status = "active" /\ players[j].isConnected}
       IN /\ i \in eligible
          /\ eligible = {i} =>
               /\ players'[i].status = "frozen"
               /\ players'[i].roundScore = calculateRoundScore(players'[i].cards)
               /\ pendingFreezeTarget' = None
               /\ phase' # "AWAITING_FREEZE_TARGET"
          /\ eligible # {i} =>
               /\ \A j \in Seats : players'[j].status = players[j].status
               /\ phase' = "AWAITING_FREEZE_TARGET"
               /\ IsSome(pendingFreezeTarget')
               /\ Val(pendingFreezeTarget').playerId = players[i].id
               /\ Range(Val(pendingFreezeTarget').eligibleTargets)
                    = {players[j].id : j \in eligible}
               /\ Len(Val(pendingFreezeTarget').eligibleTargets) = Cardinality(eligible)]_vars

\* the last player in the round has just drawn a Freeze and holds a scoring hand
C10_Witness ==
  /\ lastOp.name = "hit" /\ lastOp.result.ok /\ lastOp.result.triggersFreeze
  /\ players[lastOp.seat].status = "frozen"
  /\ players[lastOp.seat].roundScore > 0
  /\ pendingFreezeTarget = None


\* C11: a pass is accepted only in PLAYER_TURN, from the current player, while
\* that player is active; the accepted pass marks the player passed, stores the
\* score of their hand as round score, leaves every hand, every other player's
\* status and round score alone, and moves the turn to the next active
\* connected player; when there is none the round ends, and the only change of
\* a banked total is the banking of that round end.
C11_PassStopsAndAdvances ==
  [][lastOp'.name = "pass" /\ lastOp'.result.ok =>
       LET i == lastOp'.seat
       IN /\ phase = "PLAYER_TURN"
          /\ currentPlayerIndex = i
          /\ players[i].status = "active"
          /\ players'[i].status = "passed"
          /\ players'[i].roundScore = calculateRoundScore(players[i].cards)
          /\ \A j \in Seats : players'[j].cards = players[j].cards
          /\ \A j \in Seats \ {i} : /\ players'[j].status = players[j].status
                                     /\ players'[j].roundScore = players[j].roundScore
          /\ IF \E j \in Seats : players'[j].status = "active" /\ players'[j].isConnected
               THEN /\ phase' = "PLAYER_TURN"
                    /\ FirstInPlayAfter(players', i, currentPlayerIndex')
                    /\ \A j \in Seats : players'[j].score = players[j].score
               ELSE /\ phase' \in {"ROUND_END", "GAME_END"}
                    /\ \A j \in Seats :
                         players'[j].score = players[j].score + Banked(players'[j])]_vars

\* a pass with a scoring hand that hands the turn to another player
C11_Witness ==
  /\ lastOp.name = "pass" /\ lastOp.result.ok
  /\ players[lastOp.seat].status = "passed"
  /\ players[lastOp.seat].roundScore > 0
  /\ phase = "PLAYER_TURN"
  /\ currentPlayerIndex # lastOp.seat


FaceValue(c) == CardFaces[c].value
\* the sum of the face values of the cards of a set
RECURSIVE SumValues(_)
SumValues(S) ==
  IF S = {} THEN 0 ELSE LET c == CHOOSE x \in S : TRUE IN FaceValue(c) + SumValues(S \ {c})
NumbersOf(S) == { c \in S : CardFaces[c].type = "number" }
FlatBonusesOf(S) == { c \in S : CardFaces[c].type = "modifier" /\ CardFaces[c].modifier = "plus" }
HasDoubler(S) == \E c \in S : CardFaces[c].type = "modifier" /\ CardFaces[c].modifier = "x2"
DistinctValues(S) == { FaceValue(c) : c \in NumbersOf(S) }

\* C12: the score of a hand is the sum of its Number values, doubled when the
\* hand holds the x2 card, plus the sum of its plus-modifiers, plus 15 when the
\* hand holds at least seven different Number values; Action cards add nothing
\* and do not count toward the seven, and the score depends only on which cards
\* are in the hand, not on their order.
C12_ScoreOfHand ==
  LET S == Range(players[0].cards)
      numbers == SumValues(NumbersOf(S))
  IN players[0].roundScore =
       (IF HasDoubler(S) THEN 2 * numbers ELSE numbers)
         + SumValues(FlatBonusesOf(S))
         + (IF Cardinality(DistinctValues(S)) >= 7 THEN 15 ELSE 0)

\* a scored hand of seven different numbers with the doubler and a plus-modifier
C12_Witness ==
  LET S == Range(players[0].cards)
  IN /\ lastOp.name = "calculateRoundScore"
     /\ Len(players[0].cards) = Cardinality(S)
     /\ Cardinality(DistinctValues(S)) = 7
     /\ HasDoubler(S)
     /\ FlatBonusesOf(S) # {}
     /\ players[0].roundScore > 15


\* C13: once a round has ended the phase is GAME_END exactly when some player's
\* cumulative score has reached the target score; then the recorded winner is a
\* player whose cumulative score is the highest of all; otherwise the phase is
\* ROUND_END and no winner is recorded.
C13_GameEndsAtTarget ==
  RoundOver =>
    IF \E i \in Seats : players[i].score >= TargetScore
      THEN /\ phase = "GAME_END"
           /\ IsSome(winnerId)
           /\ \E w \in Seats : /\ players[w].id = Val(winnerId)
                                /\ \A j \in Seats : players[j].score <= players[w].score
      ELSE phase = "ROUND_END" /\ winnerId = None

\* a game won by a player who is not the first at the table to be over the target
C13_Witness ==
  /\ phase = "GAME_END"
  /\ \E w \in Seats :
       /\ winnerId = Some(players[w].id)
       /\ \E j \in Seats : j < w /\ players[j].score >= TargetScore
                                   /\ players[j].score < players[w].score


\* a call that starts a round: startGame, or the timeout set at the end of a round
RoundStarts == lastOp'.name \in {"startGame", "roundStartTimeout"}
\* the cards the call just made took from the deck
DrawnNow == { drawn'[k].card : k \in 1..Len(drawn') }

\* C14: the call that starts a round raises the round counter by exactly one and
\* puts every card that was in a hand on the discard pile; what a player holds
\* when the call returns was drawn by its deal, and a round score is non-zero only for
\* a player the deal froze; a disconnected player is disconnected with no cards
\* and a connected player is active unless the deal itself took them out; and no
\* pending Second Chance, Flip Three target, deferred freeze or Flip Three count
\* survives, the only pending record being a freeze choice the deal itself
\* paused on, with its deal cursor.
C14_RoundStartsClean ==
  [][RoundStarts =>
       /\ round' = round + 1
       /\ IsPrefix(discardPile \o AllHands(Engine, 0), discardPile')
       /\ \A i \in Seats :
            /\ Range(players'[i].cards) \subseteq DrawnNow
            /\ players'[i].roundScore =
                 (IF players'[i].status = "frozen"
                    THEN calculateRoundScore(players'[i].cards) ELSE 0)
            /\ players'[i].isConnected = players[i].isConnected
            /\ players'[i].score = players[i].score
            /\ IF players[i].isConnected
                 THEN players'[i].status \in {"active", "frozen", "busted"}
                 ELSE players'[i].status = "disconnected" /\ players'[i].cards = << >>
       /\ pendingSecondChance' = None
       /\ pendingFlipThreeTarget' = None
       /\ pendingFlipThreeFreeze' = None
       /\ flipThreeRemaining' = 0
       /\ IF phase' = "AWAITING_FREEZE_TARGET"
            THEN IsSome(pendingFreezeTarget') /\ IsSome(pendingDealIndex')
            ELSE pendingFreezeTarget' = None /\ pendingDealIndex' = None]_vars

\* a second round started with a player away, after a round that left cards in
\* hands and a Flip Three count behind
C14_Witness ==
  /\ lastOp.name = "roundStartTimeout"
  /\ round = 2
  /\ \E i \in Seats : players[i].status = "disconnected"
  /\ \E i \in Seats : players[i].status = "active"
  /\ discardPile # << >>


\* C15: however a round ends without ending the game, that call moves the
\* dealer index on by exactly one seat and schedules exactly one start of the
\* next round; the scheduled start raises the round counter by exactly one and
\* leaves the dealer where the round end put it.
C15_DealerAndRoundAdvanceByOne ==
  [][/\ (~RoundOver /\ phase' = "ROUND_END") =>
          /\ dealerIndex' = (dealerIndex + 1) % MinPlayers
          /\ timers' = timers + 1
     /\ lastOp'.name = "roundStartTimeout" =>
          /\ round' = round + 1
          /\ dealerIndex' = dealerIndex]_vars


\* C16: no call ever lowers a player's cumulative score; a cumulative score
\* changes only in a call that ends a round, and the calls that start a round,
\* reconnect a player, change a player's id or tear the game down leave every
\* cumulative score as it was.
C16_TotalsOnlyGrowAtRoundEnd ==
  [][\A i \in Seats :
       /\ players'[i].score >= players[i].score
       /\ players'[i].score # players[i].score =>
            /\ phase \notin {"ROUND_END", "GAME_END", "LOBBY"}
            /\ phase' \in {"ROUND_END", "GAME_END"}
            /\ lastOp'.name \in {"hit", "pass", "useSecondChance", "selectFreezeTarget",
                                  "selectFlipThreeTarget", "playerDisconnected"}]_vars

\* a round ended, and a round score banked, by the current player dropping out
C16_Witness ==
  /\ lastOp.name = "playerDisconnected"
  /\ RoundOver
  /\ \E i \in Seats : players[i].score > 0 /\ players[i].score = players[i].roundScore


\* the cards the call just made took from the deck, in the order it took them
RECURSIVE DrawnCards(_)
DrawnCards(k) == IF k = 0 THEN << >> ELSE Append(DrawnCards(k - 1), drawn'[k].card)

\* C17: the call that starts a round draws its deal from the top of the deck as
\* the previous round left it, without rebuilding or reordering it, so the deck
\* afterwards is the old deck less the cards dealt; and the deck is ever anything
\* but the old deck less its top cards only in a hit that found it empty, which
\* then holds cards of the old discard pile.
C17_DeckSurvivesRoundStart ==
  [][/\ RoundStarts => deck = deck' \o Reverse(DrawnCards(Len(drawn')))
     /\ ~IsPrefix(deck', deck) =>
          /\ lastOp'.name = "hit"
          /\ deck = << >>
          /\ Range(deck') \subseteq Range(discardPile)]_vars

\* a second round dealt from what the first round left of the deck
C17_Witness ==
  /\ lastOp.name = "roundStartTimeout"
  /\ round = 2
  /\ Len(drawn) >= MinPlayers
  /\ deck # << >>
  /\ discardPile # << >>


\* C18: a hit by the current player, active and in PLAYER_TURN, returns no card
\* exactly when the deck and the discard pile are both empty, and then nothing
\* in the game changes; a hit that finds the deck empty and the discard pile not
\* puts the whole discard pile into the deck and draws from it, so the cards of
\* the old discard pile are what the deck now holds plus what the call drew, no
\* hand loses a card, and when the card drawn is a number the player does not
\* hold it goes to their hand and the discard pile is left empty.
C18_HitReshufflesOrFindsNothing ==
  [][(/\ lastOp'.name = "hit"
      /\ phase = "PLAYER_TURN"
      /\ lastOp'.seat = currentPlayerIndex
      /\ players[currentPlayerIndex].status = "active") =>
       LET i == lastOp'.seat
       IN IF deck = << >> /\ discardPile = << >>
            THEN ~lastOp'.result.ok /\ engineVars' = engineVars
            ELSE /\ lastOp'.result.ok
                 /\ deck = << >> =>
                      /\ \A c \in 1..Len(CardFaces) :
                           CountIn(deck' \o DrawnCards(Len(drawn')), c) = CountIn(discardPile, c)
                      /\ drawn'[1].ctx = "hit" /\ drawn'[1].seat = i
                      /\ \A j \in Seats : IsPrefix(players[j].cards, players'[j].cards)
                      /\ (isNumberCard(drawn'[1].card) /\ ~drawn'[1].isBust) =>
                           /\ players'[i].cards = Append(players[i].cards, drawn'[1].card)
                           /\ discardPile' = << >>]_vars

\* the current player's hit refused for want of a card
C18_Witness ==
  /\ lastOp.name = "hit" /\ ~lastOp.result.ok
  /\ phase = "PLAYER_TURN"
  /\ lastOp.seat = currentPlayerIndex
  /\ players[currentPlayerIndex].status = "active"
  /\ deck = << >> /\ discardPile = << >>


\* C19: playerDisconnected marks the player not connected; an active player
\* becomes disconnected and a passed, busted or frozen player keeps their status;
\* when the player was the current player in PLAYER_TURN the turn moves to the
\* next active connected player, or the round ends when there is none, and
\* otherwise phase and turn stay; playerReconnected marks the player connected
\* and makes a disconnected player active again; neither changes a hand or a
\* round score, nor anything of another player, and a cumulative score changes
\* only by the banking of a round the disconnection ends.
C19_DisconnectAndReconnect ==
  [][/\ lastOp'.name = "playerDisconnected" =>
          LET i == lastOp'.seat
              wasTurn == phase = "PLAYER_TURN" /\ currentPlayerIndex = i
          IN /\ ~players'[i].isConnected
             /\ players'[i].status =
                  (IF players[i].status = "active" THEN "disconnected" ELSE players[i].status)
             /\ \A j \in Seats : /\ players'[j].cards = players[j].cards
                                  /\ players'[j].roundScore = players[j].roundScore
                                  /\ players'[j].id = players[j].id
             /\ \A j \in Seats \ {i} : /\ players'[j].status = players[j].status
                                        /\ players'[j].isConnected = players[j].isConnected
             /\ IF wasTurn
                  THEN IF \E j \in Seats : players'[j].status = "active" /\ players'[j].isConnected
                         THEN /\ phase' = "PLAYER_TURN"
                              /\ FirstInPlayAfter(players', i, currentPlayerIndex')
                              /\ \A j \in Seats : players'[j].score = players[j].score
                         ELSE /\ phase' \in {"ROUND_END", "GAME_END"}
                              /\ \A j \in Seats :
                                   players'[j].score = players[j].score + Banked(players'[j])
                  ELSE /\ phase' = phase
                       /\ currentPlayerIndex' = currentPlayerIndex
                       /\ \A j \in Seats : players'[j].score = players[j].score
     /\ lastOp'.name = "playerReconnected" =>
          LET i == lastOp'.seat
          IN /\ players'[i].isConnected
             /\ players'[i].status =
                  (IF players[i].status = "disconnected" THEN "active" ELSE players[i].status)
             /\ players' = [players EXCEPT ![i].isConnected = TRUE, ![i].status = players'[i].status]
             /\ phase' = phase
             /\ currentPlayerIndex' = currentPlayerIndex]_vars

\* the player next after the last one to play dropped out on their turn, and the
\* turn went to the player after them
C19_Witness ==
  /\ lastOp.name = "playerDisconnected"
  /\ players[lastOp.seat].status = "disconnected"
  /\ turnOf # -1
  /\ lastOp.seat = (turnOf + 1) % MinPlayers
  /\ phase = "PLAYER_TURN"
  /\ currentPlayerIndex = (turnOf + 2) % MinPlayers
  /\ players[currentPlayerIndex].status = "active"


\* C20: updatePlayerId(old, new) gives the player the new id and rewrites every
\* pending record that named the old id: the player of a pending Second Chance,
\* and the drawer and the eligible targets of a pending freeze choice and of a
\* pending Flip Three choice; nothing else in the game changes.
C20_RenameReachesEveryPendingRecord ==
  [][lastOp'.name = "updatePlayerId" =>
       LET i == lastOp'.seat
           new == lastOp'.target
           renamed(x) == IF x = lastOp'.playerId THEN new ELSE x
           renamedChoice(o) ==
             IF IsSome(o)
               THEN Some([playerId |-> renamed(Val(o).playerId),
                          eligibleTargets |-> [k \in 1..Len(Val(o).eligibleTargets) |->
                                                 renamed(Val(o).eligibleTargets[k])]])
               ELSE None
       IN /\ players' = [players EXCEPT ![i].id = new]
          /\ pendingSecondChance' =
               (IF IsSome(pendingSecondChance)
                  THEN Some([Val(pendingSecondChance) EXCEPT !.playerId = renamed(@)])
                  ELSE None)
          /\ pendingFreezeTarget' = renamedChoice(pendingFreezeTarget)
          /\ pendingFlipThreeTarget' = renamedChoice(pendingFlipThreeTarget)
          /\ UNCHANGED << deck, discardPile, phase, currentPlayerIndex, dealerIndex, round,
                          pendingFlipThreeFreeze, pendingDealIndex, flipThreeRemaining,
                          winnerId, roundStartTimeout, timers, roundStarts >>]_vars


\* C21: at most one start of the next round is scheduled at any time, and once
\* cleanup has been called no call changes the phase, the round counter, the
\* dealer or any player's hand or status.
C21_OneTimerNoneAfterCleanup ==
  [][/\ timers' <= 1
     /\ cleanedUp => UNCHANGED << phase, round, dealerIndex, players >>]_vars


\* how many Second Chance cards a hand holds
SecondChancesIn(cards) == Cardinality({ k \in 1..Len(cards) : IsSecondChance(cards[k]) })
\* hands and discard pile as the call found them, once a starting round has
\* cleared the hands and a hit on an empty deck has taken the discard pile
HandBefore(j) == IF RoundStarts THEN << >> ELSE players[j].cards
DiscardBefore ==
  IF RoundStarts THEN discardPile \o AllHands(Engine, 0)
  ELSE IF lastOp'.name = "hit" /\ deck = << >> THEN << >>
  ELSE discardPile

\* how often card c lies on the discard pile or in a hand other than seat i's,
\* after the call and as the call found things
ElsewhereAfter(i, c) ==
  CountIn(discardPile', c) + CountIn(AllHands(Engine', 0), c) - CountIn(players'[i].cards, c)
ElsewhereBefore(i, c) ==
  CountIn(DiscardBefore, c)
  + (IF RoundStarts THEN 0 ELSE CountIn(AllHands(Engine, 0), c) - CountIn(players[i].cards, c))

RECURSIVE IsSubsequence(_, _)
IsSubsequence(s, t) ==
  IF s = << >> THEN TRUE
  ELSE IF t = << >> THEN FALSE
  ELSE IF Head(s) = Head(t) THEN IsSubsequence(Tail(s), Tail(t))
  ELSE IsSubsequence(s, Tail(t))
\* the cards of s are those of t and those of u together
IsUnionOf(s, t, u) == \A c \in 1..Len(CardFaces) : CountIn(s, c) = CountIn(t, c) + CountIn(u, c)
Smaller(a, b) == IF a <= b THEN a ELSE b

\* C23: draw on an empty deck returns nothing and leaves the deck as it is, and
\* on any other deck takes exactly one card out and returns it; drawMultiple(n)
\* returns min(n, size) cards, which are the cards the deck loses; addCards(cs)
\* makes the deck larger by the length of cs, and the cards that were in the
\* deck keep their order.
C23_DeckOperations ==
  [][/\ lastOp'.name = "draw" =>
          IF deck = << >>
            THEN drawn' = << >> /\ deck' = deck
            ELSE /\ Len(drawn') = 1
                 /\ Len(deck') = Len(deck) - 1
                 /\ IsUnionOf(deck, deck', drawn')
     /\ lastOp'.name = "drawMultiple" =>
          /\ Len(drawn') = Smaller(lastOp'.target, Len(deck))
          /\ Len(deck') = Len(deck) - Len(drawn')
          /\ IsUnionOf(deck, deck', drawn')
     /\ lastOp'.name = "addCards" =>
          /\ Len(deck') = Len(deck) + Len(drawn')
          /\ IsUnionOf(deck', deck, drawn')
          /\ IsSubsequence(deck, deck')]_vars

\* cards handed back to a deck that still held some
C23_Witness ==
  /\ lastOp.name = "addCards"
  /\ Len(drawn) > 1
  /\ Len(deck) > Len(drawn) + 1
  /\ Len(deck) < Len(DealtFaces)


\* the seat of the target named by the step's intent
TargetSeat == SeatOf(Engine, lastOp'.target)

\* C24: an accepted selectFreezeTarget makes the chosen target, which was active
\* and in the recorded eligible list, frozen with round score equal to the score
\* of its hand and clears the pending record; outside the initial deal no other
\* player's status changes, the phase returns to PLAYER_TURN and the turn goes to
\* the next active connected player after the current seat, or the round ends;
\* when the call resumes the initial deal, the players seated before the point
\* where the deal resumes keep their status, and a new prompt can only belong to
\* a seat the resumed deal reaches.
C24_FreezeTargetChosen ==
  [][(lastOp'.name = "selectFreezeTarget" /\ lastOp'.result.ok) =>
       /\ players[TargetSeat].status = "active"
       /\ lastOp'.target \in Range(Val(pendingFreezeTarget).eligibleTargets)
       /\ players'[TargetSeat].status = "frozen"
       /\ players'[TargetSeat].roundScore = calculateRoundScore(players[TargetSeat].cards)
       /\ \A j \in Seats \ {TargetSeat} :
             (pendingDealIndex = None \/ j < Val(pendingDealIndex))
               => players'[j].status = players[j].status
       /\ \/ pendingFreezeTarget' = None
          \/ /\ pendingDealIndex # None
             /\ SeatOf(Engine', Val(pendingFreezeTarget').playerId) >= Val(pendingDealIndex)
       /\ pendingDealIndex = None =>
             /\ pendingFreezeTarget' = None
             /\ IF \E j \in Seats : players'[j].status = "active" /\ players'[j].isConnected
                  THEN /\ phase' = "PLAYER_TURN"
                       /\ FirstInPlayAfter(players', currentPlayerIndex, currentPlayerIndex')
                  ELSE phase' \in {"ROUND_END", "GAME_END"}]_vars

\* a Freeze dealt during the initial deal was given to a player holding cards,
\* and the deal that went on busted a player seated further on
C24_Witness ==
  /\ lastOp.name = "selectFreezeTarget" /\ lastOp.result.ok
  /\ players[SeatOf(Engine, lastOp.target)].status = "frozen"
  /\ players[SeatOf(Engine, lastOp.target)].roundScore > 0
  /\ \E j \in Seats : players[j].status = "busted" /\ j > lastOp.seat

\* C24 as the specification words it: no other player's status changes in any
\* accepted selectFreezeTarget, the ones that resume the initial deal included
C24_NoOtherStatusChanges ==
  [][(lastOp'.name = "selectFreezeTarget" /\ lastOp'.result.ok) =>
       /\ players'[TargetSeat].status = "frozen"
       /\ players'[TargetSeat].roundScore = calculateRoundScore(players[TargetSeat].cards)
       /\ \A j \in Seats \ {TargetSeat} : players'[j].status = players[j].status
       /\ pendingFreezeTarget' = None]_vars


\* C25: after an accepted selectFlipThreeTarget whose three draws complete
\* without a pause and without ending the round, the current player is the
\* first active connected player found cyclically after the drawer's seat.
C25_FlipThreeAdvancesOnce ==
  [][(/\ lastOp'.name = "selectFlipThreeTarget" /\ lastOp'.result.ok
      /\ phase' = "PLAYER_TURN")
       => FirstInPlayAfter(players', currentPlayerIndex, currentPlayerIndex')]_vars


\* the draws the step made inside a Flip Three during play, and the Flip Three
\* cards among them
FlipThreeDrawsNow == { k \in 1..Len(drawn') : drawn'[k].ctx = "flipThree" }
FlipThreeNestedNow ==
  { k \in FlipThreeDrawsNow : CardFaces[drawn'[k].card].action = "flip_three" }
\* the step starts a Flip Three: a target is chosen, or a hit draws the card
\* with one eligible player
FlipThreeStarts ==
  \/ lastOp'.name = "selectFlipThreeTarget" /\ lastOp'.result.ok
  \/ /\ lastOp'.name = "hit" /\ lastOp'.result.ok
     /\ drawn' # << >> /\ CardFaces[drawn'[1].card].action = "flip_three"
     /\ phase' # "AWAITING_FLIP_THREE_TARGET"
\* the step resumes a Flip Three that paused on a bust choice
FlipThreeResumes == BustChoice(TRUE) /\ flipThreeRemaining > 0
\* the draws the sequence has to make from this step on
FlipThreeDue ==
  (IF FlipThreeStarts THEN FlipThreeDraws ELSE flipThreeRemaining)
  + FlipThreeDraws * Cardinality(FlipThreeNestedNow)
\* the step cut the sequence short: a bust without Second Chance or 7 unique numbers
FlipThreeCutShort ==
  \/ \E k \in FlipThreeDrawsNow : drawn'[k].isBust /\ ~drawn'[k].hasSecondChance
  \/ \E j \in Seats : players[j].status = "active" /\ players'[j].status = "passed"
\* the Flip Three draws of the initial deal made for seat i, the Flip Three cards
\* dealt to seat i, and whether one of the draws busted seat i
DealFlipThreeDraws(i) ==
  { k \in 1..Len(drawn') : drawn'[k].seat = i /\ drawn'[k].ctx = "dealFlipThree" }
DealFlipThreeCards(i) ==
  { k \in 1..Len(drawn') : /\ drawn'[k].seat = i
                           /\ drawn'[k].ctx \in {"deal", "dealFlipThree"}
                           /\ CardFaces[drawn'[k].card].action = "flip_three" }
DealFlipThreeBust(i) ==
  \E k \in DealFlipThreeDraws(i) : drawn'[k].isBust /\ ~drawn'[k].hasSecondChance

\* C26: a Flip Three sequence that is not cut short draws exactly three cards
\* for its target, and three more for each Flip Three drawn inside it: during
\* play the draws a step makes and the draws left for after a bust-choice pause
\* add up to the draws due, and during the initial deal every Flip Three dealt to
\* a seat brings that seat three draws, whenever deck and discard pile together
\* hold the cards for it.
C26_FlipThreeDrawsThree ==
  [][/\ ( /\ FlipThreeStarts \/ FlipThreeResumes
          /\ ~FlipThreeCutShort
          /\ Len(deck) + Len(discardPile) > FlipThreeDue )
        => Cardinality(FlipThreeDrawsNow) + flipThreeRemaining' = FlipThreeDue
     /\ \A i \in Seats :
          ( /\ ~DealFlipThreeBust(i)
            /\ Len(deck) + Len(discardPile) >= Len(drawn') + FlipThreeDraws )
          => Cardinality(DealFlipThreeDraws(i))
               = FlipThreeDraws * Cardinality(DealFlipThreeCards(i))]_vars


\* the seats for which the step drew the Freeze inside a Flip Three, in play or
\* during the initial deal
SetAsideNow ==
  { drawn'[k].seat : k \in { n \in 1..Len(drawn') :
                               /\ drawn'[n].ctx \in {"flipThree", "dealFlipThree"}
                               /\ CardFaces[drawn'[n].card].action = "freeze" } }
\* the step works on a Flip Three for which a Freeze is set aside: it drew the
\* Freeze, or it answers the bust choice the sequence paused on
SetAsideInStep ==
  \/ SetAsideNow # {}
  \/ /\ lastOp'.name = "useSecondChance" /\ lastOp'.result.ok
     /\ IsSome(pendingFlipThreeFreeze)
     /\ Val(pendingFlipThreeFreeze).playerId = lastOp'.playerId
\* the step froze somebody or opened the freeze-target prompt
FreezeTakesEffect ==
  \/ \E j \in Seats : players[j].status # "frozen" /\ players'[j].status = "frozen"
  \/ pendingFreezeTarget' # None
  \/ phase' = "AWAITING_FREEZE_TARGET"
\* the player the Flip Three of the step is for
SetAsideSeats == SetAsideNow \cup (IF lastOp'.name = "useSecondChance" THEN {lastOp'.seat} ELSE {})
\* the draws the step made for seat i inside a Flip Three of the initial deal
\* are the three of the sequence, or the deck gave out
DealSequenceDone(i) ==
  DealFlipThreeDraws(i) # {} => (Cardinality(DealFlipThreeDraws(i)) = FlipThreeDraws \/ deck' = << >>)

\* C27: a Freeze drawn inside a Flip Three freezes nobody and opens no prompt
\* while draws of the sequence are left: a step that leaves the sequence paused
\* has no such effect, and a step in which the Freeze takes effect has made the
\* remaining draws of the sequence (or emptied the deck) and leaves none; and when
\* the sequence ends with its target busted or stopped by 7 unique numbers, nobody
\* is frozen and no prompt is opened.
C27_SetAsideFreezeWaits ==
  [][SetAsideInStep =>
       /\ (phase' = "AWAITING_SECOND_CHANCE") => ~FreezeTakesEffect
       /\ FreezeTakesEffect =>
             /\ flipThreeRemaining' = 0
             /\ FlipThreeDrawsNow # {} =>
                   (Cardinality(FlipThreeDrawsNow) = FlipThreeDue \/ deck' = << >>)
             /\ \A i \in SetAsideNow : DealSequenceDone(i)
       /\ (\E i \in SetAsideSeats : players'[i].status \in {"busted", "passed"})
             => ~FreezeTakesEffect]_vars

\* a Flip Three drew the Freeze, paused on a bust choice with a draw left, and
\* nobody is frozen
C27_Witness ==
  /\ phase = "AWAITING_SECOND_CHANCE" /\ flipThreeRemaining > 0
  /\ IsSome(pendingFlipThreeFreeze)
  /\ \A j \in Seats : players[j].status # "frozen"
  /\ pendingFreezeTarget = None


\* C28: when a Flip Three for which a Freeze was set aside ends with its target
\* still in the round, in the step that drew the last card or in the step that
\* accepted the bust choice it paused on, the Freeze is resolved in that step:
\* somebody is frozen or the engine waits in AWAITING_FREEZE_TARGET, and no
\* set-aside Freeze stays on record.
C28_SetAsideFreezeResolved ==
  [][( /\ SetAsideInStep
       /\ phase' # "AWAITING_SECOND_CHANCE"
       /\ \A i \in SetAsideSeats : players'[i].status \notin {"busted", "passed"} )
       => /\ FreezeTakesEffect
          /\ pendingFlipThreeFreeze' = None]_vars


\* how many different numbers a hand holds
DistinctNumbers(cards) == Cardinality(DistinctValues(Range(cards)))

DealDrawsNow == { k \in 1..Len(drawn') : drawn'[k].ctx \in {"deal", "dealFlipThree"} }
\* how many seats after the dealer's seat seat i comes, going round the table
SeatsFromDealer(i) == ((i - dealerIndex') + MinPlayers) % MinPlayers

\* C30: the initial deal goes round the table from the dealer's seat: the first
\* card a round start deals goes to the first active player found from the
\* dealer's seat on, and of two cards dealt in one step the later one never goes
\* to a seat that comes earlier in that order.
C30_DealStartsAtDealer ==
  [][/\ \A k, l \in DealDrawsNow :
          k < l => SeatsFromDealer(drawn'[k].seat) <= SeatsFromDealer(drawn'[l].seat)
     /\ (RoundStarts /\ DealDrawsNow # {}) =>
          \A j \in Seats :
            players'[j].isConnected
              => SeatsFromDealer(drawn'[1].seat) <= SeatsFromDealer(j)]_vars


\* the step completed an initial deal: finishInitialDeal ran and called the hook
DealCompletes == roundStarts' # roundStarts /\ phase' = "PLAYER_TURN"
\* a hand holds a starting card, a Number or a Modifier
HasStartingCard(cards) == \E c \in Range(cards) : isNumberCard(c) \/ isModifierCard(c)

\* C31: when the initial deal of a round completes and the engine enters
\* PLAYER_TURN, every player whose status is active holds at least one Number or
\* Modifier card.
C31_ActivePlayersHoldStartingCard ==
  [][DealCompletes =>
       \A j \in Seats : players'[j].status = "active" => HasStartingCard(players'[j].cards)]_vars


\* C32: the step that completes an initial deal invokes the round-start hook
\* exactly once, and the hook is invoked in no other step and never more often
\* than rounds were started; the deal it completes is the one the step started
\* or the one that was paused; and when a player is active and connected at that
\* moment, the current player is the first such player found cyclically from the
\* seat after the dealer's.
C32_FirstTurnAfterDealer ==
  [][/\ roundStarts' # roundStarts =>
          /\ roundStarts' = roundStarts + 1
          /\ phase' = "PLAYER_TURN"
          /\ pendingDealIndex' = None
          /\ \/ RoundStarts /\ round' = round + 1
             \/ lastOp'.name = "selectFreezeTarget" /\ pendingDealIndex # None /\ round' = round
     /\ roundStarts' <= round'
     /\ ( /\ DealCompletes
          /\ \E j \in Seats : players'[j].status = "active" /\ players'[j].isConnected )
          => FirstInPlayAfter(players', dealerIndex', currentPlayerIndex')]_vars

\* a deal completed with a player out of the game sitting right after the dealer
C32_Witness ==
  /\ lastOp.name \in {"startGame", "roundStartTimeout", "selectFreezeTarget"}
  /\ phase = "PLAYER_TURN" /\ roundStarts = round
  /\ players[(dealerIndex + 1) % MinPlayers].status # "active"
  /\ currentPlayerIndex = (dealerIndex + 2) % MinPlayers
  /\ players[currentPlayerIndex].status = "active"


\* how many of the three pending choice records exist
PendingRecords ==
  (IF IsSome(pendingSecondChance) THEN 1 ELSE 0)
  + (IF IsSome(pendingFreezeTarget) THEN 1 ELSE 0)
  + (IF IsSome(pendingFlipThreeTarget) THEN 1 ELSE 0)

\* C33: between two calls at most one of the pending Second Chance, freeze
\* target and Flip Three target records exists; a record exists exactly when the
\* phase is the matching awaiting phase; the paused-deal cursor is set only in
\* AWAITING_FREEZE_TARGET; and the Flip Three count is non-zero only in
\* AWAITING_SECOND_CHANCE.
C33_PendingMatchesPhase ==
  /\ PendingRecords <= 1
  /\ IsSome(pendingSecondChance) <=> phase = "AWAITING_SECOND_CHANCE"
  /\ IsSome(pendingFreezeTarget) <=> phase = "AWAITING_FREEZE_TARGET"
  /\ IsSome(pendingFlipThreeTarget) <=> phase = "AWAITING_FLIP_THREE_TARGET"
  /\ IsSome(pendingDealIndex) => phase = "AWAITING_FREEZE_TARGET"
  /\ flipThreeRemaining # 0 => phase = "AWAITING_SECOND_CHANCE"

\* a Flip Three paused on a bust choice with draws left
C33_Witness ==
  /\ phase = "AWAITING_SECOND_CHANCE" /\ IsSome(pendingSecondChance)
  /\ flipThreeRemaining > 0


\* C34: a passed or frozen player's stored round score is the score of the hand
\* the player holds, and a busted, active or disconnected player's round score
\* is 0.
C34_RoundScoreFollowsStatus ==
  \A j \in Seats :
    IF players[j].status \in {"passed", "frozen"}
      THEN players[j].roundScore = calculateRoundScore(players[j].cards)
      ELSE players[j].roundScore = 0

\* one player stopped, one frozen and one busted, the first two with points
C34_Witness ==
  /\ \E j \in Seats : players[j].status = "passed" /\ players[j].roundScore > 0
  /\ \E j \in Seats : players[j].status = "frozen" /\ players[j].roundScore > 0
  /\ \E j \in Seats : players[j].status = "busted" /\ players[j].cards # << >>


\* C35: whenever the phase is PLAYER_TURN the player at the current-player
\* index is active and connected.
C35_CurrentPlayerInPlay ==
  phase = "PLAYER_TURN" =>
    /\ players[currentPlayerIndex].status = "active"
    /\ players[currentPlayerIndex].isConnected


\* a round has started and is not over
RoundInPlay == phase \in {"DEALING", "PLAYER_TURN", "AWAITING_SECOND_CHANCE",
                          "AWAITING_FREEZE_TARGET", "AWAITING_FLIP_THREE_TARGET"}

\* some player has an intent that the engine would accept
SomeIntentAccepted ==
  \E i \in Seats :
    \/ \E shuffled \in ShuffleOutcomes(DeckAddCards(deck, discardPile)) :
         hit(Engine, players[i].id, shuffled).result.ok
    \/ pass(Engine, players[i].id).ok
    \/ \E use \in BOOLEAN : useSecondChance(Engine, players[i].id, use).ok
    \/ \E t \in Seats : selectFreezeTarget(Engine, players[i].id, players[t].id).ok
    \/ \E t \in Seats : selectFlipThreeTarget(Engine, players[i].id, players[t].id).ok

\* C36: a round never hangs: with nobody disconnecting, the engine never rests
\* in DEALING, PLAYER_TURN or an AWAITING phase in a state in which no intent of
\* any player can be accepted (a state from which the round cannot reach
\* ROUND_END or GAME_END, since only an accepted intent moves a round on).
C36_RoundNeverHangs ==
  RoundInPlay => SomeIntentAccepted


\* the step is the round-start timeout set by endRound going off
TimeoutFires == lastOp'.name = "roundStartTimeout" /\ round' # round

\* C37: the round-start timeout goes off only when the phase is ROUND_END, and
\* once the phase is GAME_END the phase, the winner, the round counter and
\* every cumulative score stay as they are.
C37_RoundStartsOnlyAtRoundEnd ==
  [][/\ TimeoutFires => phase = "ROUND_END"
     /\ phase = "GAME_END" =>
          /\ phase' = "GAME_END"
          /\ winnerId' = winnerId
          /\ round' = round
          /\ \A j \in Seats : players'[j].score = players[j].score]_vars


\* the statuses of a player who is out of the round
OutOfRound == {"passed", "busted", "frozen"}

\* C38: in a step that does not start a round, a player who has stopped, is
\* busted or is frozen does not become active and keeps the round score, and a
\* player who becomes active was disconnected before.
C38_OutOfRoundStaysOut ==
  [][round' = round =>
       \A j \in Seats :
         /\ players[j].status \in OutOfRound =>
              /\ players'[j].status # "active"
              /\ players'[j].roundScore = players[j].roundScore
         /\ (players'[j].status = "active" /\ players[j].status # "active") =>
              players[j].status = "disconnected"]_vars

\* a player who stopped with points, dropped out and has just come back
C38_Witness ==
  /\ lastOp.name = "playerReconnected"
  /\ lastOp.seat \in Seats
  /\ players[lastOp.seat].status = "passed"
  /\ players[lastOp.seat].roundScore > 0
  /\ players[lastOp.seat].isConnected
  /\ phase \in {"PLAYER_TURN", "AWAITING_FREEZE_TARGET", "AWAITING_FLIP_THREE_TARGET"}


\* how many Number cards a hand holds
NumberCardsIn(cards) == Cardinality({ k \in 1..Len(cards) : isNumberCard(cards[k]) })

\* C39: no hand holds two Number cards of the same value, and an active player
\* holds fewer than seven different Number values.
C39_HandsHoldDistinctNumbers ==
  \A j \in Seats :
    /\ NumberCardsIn(players[j].cards) = DistinctNumbers(players[j].cards)
    /\ players[j].status = "active" => DistinctNumbers(players[j].cards) < FlipSevenCount

\* an active player one number short of seven after a duplicate was turned away
C39_Witness ==
  /\ \E j \in Seats : players[j].status = "active" /\ DistinctNumbers(players[j].cards) = FlipSevenCount - 1
  /\ \E c \in Range(discardPile) : isNumberCard(c)
  /\ phase = "PLAYER_TURN"


\* the players named by the pending record of the phase
PendingPlayerIds ==
  IF phase = "AWAITING_SECOND_CHANCE" /\ IsSome(pendingSecondChance)
    THEN {Val(pendingSecondChance).playerId}
  ELSE IF phase = "AWAITING_FREEZE_TARGET" /\ IsSome(pendingFreezeTarget)
    THEN {Val(pendingFreezeTarget).playerId}
  ELSE IF phase = "AWAITING_FLIP_THREE_TARGET" /\ IsSome(pendingFlipThreeTarget)
    THEN {Val(pendingFlipThreeTarget).playerId}
  ELSE {}

\* the player has an answer to the pending choice that the engine would accept
AnswerAccepted(i) ==
  \/ \E use \in BOOLEAN : useSecondChance(Engine, players[i].id, use).ok
  \/ \E t \in Seats : selectFreezeTarget(Engine, players[i].id, players[t].id).ok
  \/ \E t \in Seats : selectFlipThreeTarget(Engine, players[i].id, players[t].id).ok

\* C40: whenever the engine waits for a bust choice, a freeze target or a Flip
\* Three target, the pending record names a player who is active and connected
\* and who has an answer the engine would accept.
C40_PendingPlayerCanAnswer ==
  phase \in {"AWAITING_SECOND_CHANCE", "AWAITING_FREEZE_TARGET", "AWAITING_FLIP_THREE_TARGET"} =>
    \E i \in Seats :
      /\ players[i].id \in PendingPlayerIds
      /\ players[i].status = "active"
      /\ players[i].isConnected
      /\ AnswerAccepted(i)

====
